---- MODULE Spec2Model ----
(***************************************************************************)
(* Cervical cancer microsimulation: the screening scheduler, the disease   *)
(* state machine, the vaccination / treatment exposure caches and the      *)
(* scale-up modifier of the attendance probability of                      *)
(* vivarium_csu_swissre_cervical_cancer, for one simulant.  Every pandas   *)
(* operation of the components is element-wise over the population index,  *)
(* so the columns of one row are the state.                                *)
(*                                                                         *)
(* Dates are whole days since the start of the simulation, ages are whole  *)
(* years, probabilities and uniform draws are in thousandths.              *)
(*                                                                         *)
(* The observers are components of their own: a simulation configured      *)
(* with them runs their listeners as well, after the listeners of the      *)
(* components they observe.                                                *)
(***************************************************************************)
EXTENDS Integers, FiniteSets, Sequences, TLC

VARIABLES
    pc,                        \* the event the engine emits next
    clock,                     \* self.clock(), days since the start
    age,                       \* column 'age', years
    alive,                     \* column 'alive' == "alive"
    cervical_cancer_state,     \* column models.CERVICAL_CANCER_MODEL_NAME
    screening_result,          \* column models.SCREENING_RESULT_MODEL_NAME
    attended_last_screening,   \* column data_values.ATTENDED_LAST_SCREENING
    previous_screening_date,   \* column data_values.PREVIOUS_SCREENING_DATE
    next_screening_date,       \* column data_values.NEXT_SCREENING_DATE
    vaccine_cached_exp,        \* HpvVaccineExposure.cached_exp
    treatment_cached_exp,      \* TreatmentExposure.cached_exp
    step,                      \* what the last handler computed for the row
    left_states,               \* the disease states the simulant has left
    observers,                 \* the observers are among the components
    index,                     \* the index of the state table
    stratification_groups,     \* ResultsStratifier.stratification_groups
    previous_cervical_cancer,  \* column f'previous_{state_machine}'
    vaccination_date,          \* column data_values.VACCINATION_DATE_COLUMN_NAME
    treatment_date,            \* column data_values.TREATMENT_DATE_COLUMN_NAME
    counts                     \* the Counter objects of the observers

\* the state of the observers
observed == <<observers, index, stratification_groups,
              previous_cervical_cancer, vaccination_date, treatment_date,
              counts>>

vars == <<pc, clock, age, alive, cervical_cancer_state, screening_result,
          attended_last_screening, previous_screening_date,
          next_screening_date, vaccine_cached_exp, treatment_cached_exp, step,
          left_states, observed>>

-----------------------------------------------------------------------------
(* Bounds of the model *)

\* number of time steps the engine takes
MaxSteps == 3

\* number of steps of a walk through the disease states
MaxWalk == 6

\* ages of the simulants when they enter the simulation
InitAges == {20, 25, 29, 63, 66}

\* values of a uniform draw of the randomness stream, in thousandths
Draws == {1, 999}

\* number of time steps the engine takes in a simulation with observers
MaxObserved == 2

\* number of transitions declared on a state while the model is built
MaxTransitions == 2

\* number of simulants the batches of a simulation create
MaxSimulants == 3

\* the ages at initialization of the simulants of an observed simulation
ObservedAges == {29}

\* number of years of clock times the attendance pipeline is evaluated at
MaxYears == 11

-----------------------------------------------------------------------------
(* constants/data_values.py *)

FIRST_SCREENING_AGE == 21
MID_SCREENING_AGE == 30
LAST_SCREENING_AGE == 65
FIRST_VACCINATION_AGE == 15
LAST_VACCINATION_AGE == 45

\* TruncnormDist('days_until_next_annual', 395.0, 72.0, 180.0, 1800.0)
DAYS_UNTIL_NEXT_ANNUAL == [mean |-> 395, sd |-> 72, lower |-> 180, upper |-> 1800]
DAYS_UNTIL_NEXT_TRIENNIAL == [mean |-> 1185, sd |-> 72]
DAYS_UNTIL_NEXT_QUINQUENNIAL == [mean |-> 1975, sd |-> 72]

\* SCREENING parameters (TruncnormDist means), thousandths
COTEST_CC_SENSITIVITY == 591
COTEST_CC_SPECIFICITY == 1000
COTEST_HPV_SENSITIVITY == 767
COTEST_HPV_SPECIFICITY == 941
CYTOLOGY_SENSITIVITY == 659
REMISSION_SENSITIVITY == 1000
HAS_SYMPTOMS_SENSITIVITY == 1000
PROBABILITY_ATTENDING_SCREENING_START_MEAN == 250
PROBABILITY_ATTENDING_SCREENING_END_MEAN == 500
\* hundredths
ATTENDED_PREVIOUS_SCREENING_MULTIPLIER_MEAN == 189

\* builder.time.step_size(), years; and the days of one year
StepYears == 1
StepDays == 365 * StepYears

\* mean time to symptom onset, days
MEAN_SYMPTOMS == 1752
P_SYMPTOMS == (1000 * StepDays) \div MEAN_SYMPTOMS

\* pd.NaT, the missing date
NaT == -1000000

\* datetime(2021, 1, 1) and datetime(2030, 1, 1), days since
\* datetime(2020, 1, 1)
SCALE_UP_START_DT == 366
SCALE_UP_END_DT == 3653

\* globals.py: the policy scenarios; 'scenario' is the configuration default
SCENARIOS == [baseline |-> "baseline", alternative |-> "alternative"]
scenario == SCENARIOS.baseline

-----------------------------------------------------------------------------
(* constants/models.py *)

SUSCEPTIBLE_STATE_NAME == "susceptible_to_cervical_cancer"
HIGH_RISK_HPV_STATE_NAME == "high_risk_hpv"
BENIGN_CANCER_STATE_NAME == "benign_cervical_cancer"
BENIGN_CANCER_WITH_HPV_STATE_NAME == "benign_cervical_cancer_with_hpv"
INVASIVE_CANCER_STATE_NAME == "cervical_cancer"
INVASIVE_CANCER_WITH_HPV_STATE_NAME == "cervical_cancer_with_hpv"
RECOVERED_STATE_NAME == "recovered_from_cervical_cancer"

NEGATIVE_STATE_NAME == "negative_screening"
POSITIVE_HRHPV_STATE_NAME == "positive_screening_high_risk_hpv"
POSITIVE_BCC_STATE_NAME == "positive_screening_benign_cervical_cancer"
POSITIVE_BCC_WITH_HRHPV_STATE_NAME == "positive_screening_benign_cervical_cancer_with_hpv"
POSITIVE_CERVICAL_CANCER_STATE_NAME == "positive_screening_invasive_cervical_cancer"
POSITIVE_CERVICAL_CANCER_WITH_HRHPV_STATE_NAME == "positive_screening_invasive_cervical_cancer_with_hpv"

SCREENING_CANCER_NEGATIVE_STATE == "cancer_negative"
SCREENING_CANCER_BCC_STATE == "cancer_bcc"
SCREENING_CANCER_INVASIVE_STATE == "cancer_invasive"

HPV_POS_STATES ==
    {HIGH_RISK_HPV_STATE_NAME, BENIGN_CANCER_WITH_HPV_STATE_NAME,
     INVASIVE_CANCER_WITH_HPV_STATE_NAME}

\* the true cancer stage with high-risk HPV taken for a benign cancer
get_screening_cancer_model_state_hpv_as_benign(s) ==
    CASE s \in {HIGH_RISK_HPV_STATE_NAME, BENIGN_CANCER_STATE_NAME,
                BENIGN_CANCER_WITH_HPV_STATE_NAME}
           -> SCREENING_CANCER_BCC_STATE
      [] s \in {INVASIVE_CANCER_STATE_NAME, INVASIVE_CANCER_WITH_HPV_STATE_NAME}
           -> SCREENING_CANCER_INVASIVE_STATE
      [] OTHER -> SCREENING_CANCER_NEGATIVE_STATE

\* the true cancer stage of a disease state, as a screening category
get_screening_cancer_model_state(s) ==
    CASE s \in {BENIGN_CANCER_STATE_NAME, BENIGN_CANCER_WITH_HPV_STATE_NAME}
           -> SCREENING_CANCER_BCC_STATE
      [] s \in {INVASIVE_CANCER_STATE_NAME, INVASIVE_CANCER_WITH_HPV_STATE_NAME}
           -> SCREENING_CANCER_INVASIVE_STATE
      [] OTHER -> SCREENING_CANCER_NEGATIVE_STATE

\* the cancer stage recorded in a screening result
get_screening_result_cancer_model_state(r) ==
    CASE r \in {POSITIVE_BCC_STATE_NAME, POSITIVE_BCC_WITH_HRHPV_STATE_NAME}
           -> SCREENING_CANCER_BCC_STATE
      [] r \in {POSITIVE_CERVICAL_CANCER_STATE_NAME,
                POSITIVE_CERVICAL_CANCER_WITH_HRHPV_STATE_NAME}
           -> SCREENING_CANCER_INVASIVE_STATE
      [] OTHER -> SCREENING_CANCER_NEGATIVE_STATE

\* the screening result of an HPV bit and a cancer stage
get_combined_screening_result(hpv, cancer) ==
    CASE cancer = SCREENING_CANCER_BCC_STATE ->
           IF hpv THEN POSITIVE_BCC_WITH_HRHPV_STATE_NAME ELSE POSITIVE_BCC_STATE_NAME
      [] cancer = SCREENING_CANCER_INVASIVE_STATE ->
           IF hpv THEN POSITIVE_CERVICAL_CANCER_WITH_HRHPV_STATE_NAME
                  ELSE POSITIVE_CERVICAL_CANCER_STATE_NAME
      [] OTHER ->
           IF hpv THEN POSITIVE_HRHPV_STATE_NAME ELSE NEGATIVE_STATE_NAME

-----------------------------------------------------------------------------
(* components/disease.py *)

\* DiseaseModel('cervical_cancer', states=[...])
DiseaseStates ==
    {SUSCEPTIBLE_STATE_NAME, HIGH_RISK_HPV_STATE_NAME, BENIGN_CANCER_STATE_NAME,
     BENIGN_CANCER_WITH_HPV_STATE_NAME, INVASIVE_CANCER_STATE_NAME,
     INVASIVE_CANCER_WITH_HPV_STATE_NAME, RECOVERED_STATE_NAME}

\* the transition set with one more edge: invasive cancer back to benign
CervicalCancer_with_regression ==
    {<<SUSCEPTIBLE_STATE_NAME, HIGH_RISK_HPV_STATE_NAME>>,
     <<SUSCEPTIBLE_STATE_NAME, BENIGN_CANCER_STATE_NAME>>,
     <<HIGH_RISK_HPV_STATE_NAME, BENIGN_CANCER_WITH_HPV_STATE_NAME>>,
     <<HIGH_RISK_HPV_STATE_NAME, SUSCEPTIBLE_STATE_NAME>>,
     <<BENIGN_CANCER_STATE_NAME, INVASIVE_CANCER_STATE_NAME>>,
     <<BENIGN_CANCER_STATE_NAME, BENIGN_CANCER_WITH_HPV_STATE_NAME>>,
     <<BENIGN_CANCER_WITH_HPV_STATE_NAME, INVASIVE_CANCER_WITH_HPV_STATE_NAME>>,
     <<BENIGN_CANCER_WITH_HPV_STATE_NAME, BENIGN_CANCER_STATE_NAME>>,
     <<INVASIVE_CANCER_STATE_NAME, RECOVERED_STATE_NAME>>,
     <<INVASIVE_CANCER_STATE_NAME, INVASIVE_CANCER_WITH_HPV_STATE_NAME>>,
     <<INVASIVE_CANCER_WITH_HPV_STATE_NAME, RECOVERED_STATE_NAME>>,
     <<INVASIVE_CANCER_WITH_HPV_STATE_NAME, INVASIVE_CANCER_STATE_NAME>>,
     <<INVASIVE_CANCER_STATE_NAME, BENIGN_CANCER_STATE_NAME>>}

\* the transition set each add_transition call of CervicalCancer() builds
CervicalCancer ==
    {<<SUSCEPTIBLE_STATE_NAME, HIGH_RISK_HPV_STATE_NAME>>,
     <<SUSCEPTIBLE_STATE_NAME, BENIGN_CANCER_STATE_NAME>>,
     <<HIGH_RISK_HPV_STATE_NAME, BENIGN_CANCER_WITH_HPV_STATE_NAME>>,
     <<HIGH_RISK_HPV_STATE_NAME, SUSCEPTIBLE_STATE_NAME>>,
     <<BENIGN_CANCER_STATE_NAME, INVASIVE_CANCER_STATE_NAME>>,
     <<BENIGN_CANCER_STATE_NAME, BENIGN_CANCER_WITH_HPV_STATE_NAME>>,
     <<BENIGN_CANCER_WITH_HPV_STATE_NAME, INVASIVE_CANCER_WITH_HPV_STATE_NAME>>,
     <<BENIGN_CANCER_WITH_HPV_STATE_NAME, BENIGN_CANCER_STATE_NAME>>,
     <<INVASIVE_CANCER_STATE_NAME, RECOVERED_STATE_NAME>>,
     <<INVASIVE_CANCER_STATE_NAME, INVASIVE_CANCER_WITH_HPV_STATE_NAME>>,
     <<INVASIVE_CANCER_WITH_HPV_STATE_NAME, RECOVERED_STATE_NAME>>,
     <<INVASIVE_CANCER_WITH_HPV_STATE_NAME, INVASIVE_CANCER_STATE_NAME>>}

\* allow_self_transitions(): every state may stay
allow_self_transitions == DiseaseStates

\* the transitions with a skipped stage: any state other than s can follow
transition_set_any(s) == DiseaseStates

\* the transitions with a relapse: a recovered simulant can be susceptible
transition_set_relapse(s) ==
    {t \in DiseaseStates : <<s, t>> \in CervicalCancer} \cup {s}
        \cup (IF s = RECOVERED_STATE_NAME THEN {SUSCEPTIBLE_STATE_NAME} ELSE {})

\* the states a simulant in state s can be in after one step
transition_set(s) ==
    {t \in DiseaseStates : <<s, t>> \in CervicalCancer}
        \cup (IF s \in allow_self_transitions THEN {s} ELSE {})

-----------------------------------------------------------------------------
(* dates with pd.NaT *)

\* date + timedelta; NaT absorbs
DatePlus(d, i) == IF d = NaT \/ i = NaT THEN NaT ELSE d + i

\* date - date, date - timedelta; NaT absorbs
DateMinus(d, e) == IF d = NaT \/ e = NaT THEN NaT ELSE d - e

\* date <= date; every comparison with NaT is False
DateLe(d, e) == d # NaT /\ e # NaT /\ d <= e

\* float * timedelta
TimedeltaTimes(draw, i) == IF i = NaT THEN NaT ELSE (draw * i) \div 1000

-----------------------------------------------------------------------------
(* utilities.py and scipy.stats quantile functions *)

\* standard normal quantile of a draw, thousandths of a standard deviation
NormQuantile(draw) ==
    CASE draw = 1 -> -3090
      [] draw = 500 -> 0
      [] draw = 999 -> 3090

\* standard quantile of the normal truncated to [-2986, 19514], thousandths
TruncQuantile(draw) ==
    CASE draw = 1 -> -2819
      [] draw = 500 -> 2
      [] draw = 999 -> 3091

\* TruncnormDist.ppf for DAYS_UNTIL_NEXT_ANNUAL, days
TruncnormDist_ppf(dist, draw) ==
    dist.mean + ((dist.sd * TruncQuantile(draw)) \div 1000)

\* get_normal_dist_random_variable(mean, sd, draw), days
get_normal_dist_random_variable(mean, sd, draw) ==
    mean + ((sd * NormQuantile(draw)) \div 1000)

-----------------------------------------------------------------------------
(* components/screening.py *)

\* randomness.get_draw(...) < probability
Bernoulli(draw, p) == draw < p

within_screening_age(a) == a >= FIRST_SCREENING_AGE /\ a <= LAST_SCREENING_AGE

\* the fractions with the denominator 1 + p m in place of 1 + p (m - 1)
get_differential_screening_fractions_no_complement(m, p) ==
    [attended |-> m * p, not_attended |-> 100 * p, den |-> 100000 + p * m]

\* get_differential_screening_probabilities before rounding: p2 = p / (1 +
\* p (m - 1)) and p1 = m p2 are attended / den and not_attended / den; p in
\* thousandths, m in hundredths
get_differential_screening_fractions(m, p) ==
    [attended |-> m * p,
     not_attended |-> 100 * p,
     den |-> 100000 + p * (m - 100)]

\* p2 = p / (1 + p (m - 1)), p1 = m p2; p in thousandths, m in hundredths
get_differential_screening_probabilities(m, p) ==
    LET f == get_differential_screening_fractions(m, p)
        not_attended == (1000 * f.not_attended) \div f.den
    IN  [attended |-> (m * not_attended) \div 100, not_attended |-> not_attended]

\* prob_attending_screening of get_screening_attendance_probability: the
\* probability of the rows that attended last time, and of the others
prob_attending_screening(attended, m, p) ==
    LET d == get_differential_screening_probabilities(m, p)
    IN  IF attended THEN d.attended ELSE d.not_attended

\* the probability_attending_screening pipeline source
get_screening_attendance_probability(attended) ==
    prob_attending_screening(attended,
                             ATTENDED_PREVIOUS_SCREENING_MULTIPLIER_MEAN,
                             PROBABILITY_ATTENDING_SCREENING_START_MEAN)

-----------------------------------------------------------------------------
(* components/intervention.py *)

\* get_screening_attendance_scale_up_factor: the end probabilities less the
\* start probabilities, for either cohort
get_screening_attendance_scale_up_factor ==
    LET start == get_differential_screening_probabilities(
                     ATTENDED_PREVIOUS_SCREENING_MULTIPLIER_MEAN,
                     PROBABILITY_ATTENDING_SCREENING_START_MEAN)
        end == get_differential_screening_probabilities(
                   ATTENDED_PREVIOUS_SCREENING_MULTIPLIER_MEAN,
                   PROBABILITY_ATTENDING_SCREENING_END_MEAN)
    IN  [attended |-> end.attended - start.attended,
         not_attended |-> end.not_attended - start.not_attended]

\* get_effect with the time elapsed counted from the start of the simulation
get_effect_since_epoch(current_date_time, scale_up) ==
    (current_date_time * scale_up) \div (SCALE_UP_END_DT - SCALE_UP_START_DT)

\* get_effect of intervention_effect: the elapsed fraction of the window
\* times the scale-up
get_effect(current_date_time, scale_up) ==
    ((current_date_time - SCALE_UP_START_DT) * scale_up)
        \div (SCALE_UP_END_DT - SCALE_UP_START_DT)

\* intervention_effect without the test of the scenario
intervention_effect_any_scenario(scn, now, attended_previous, target) ==
    LET scale_up == IF attended_previous
                    THEN get_screening_attendance_scale_up_factor.attended
                    ELSE get_screening_attendance_scale_up_factor.not_attended
    IN  target + (IF SCALE_UP_START_DT <= now /\ now < SCALE_UP_END_DT
                  THEN get_effect(now, scale_up)
                  ELSE IF now >= SCALE_UP_END_DT THEN scale_up ELSE 0)

\* Intervention.intervention_effect, the modifier of the
\* probability_attending_screening pipeline
intervention_effect(scn, now, attended_previous, target) ==
    LET scale_up == IF attended_previous
                    THEN get_screening_attendance_scale_up_factor.attended
                    ELSE get_screening_attendance_scale_up_factor.not_attended
        effect == IF scn = SCENARIOS.alternative
                  THEN IF SCALE_UP_START_DT <= now /\ now < SCALE_UP_END_DT
                       THEN get_effect(now, scale_up)
                       ELSE IF now >= SCALE_UP_END_DT THEN scale_up ELSE 0
                  ELSE 0
    IN  target + effect

\* the probability_attending_screening pipeline: the source and its modifier
probability_attending_screening(attended) ==
    intervention_effect(scenario, clock, attended,
                        get_screening_attendance_probability(attended))

-----------------------------------------------------------------------------
(* components/screening.py, the screening algorithm *)

\* invasive cancer and the symptom draw, whatever the result on record
is_symptomatic_any_result(state, result, draw) ==
    /\ state \in {INVASIVE_CANCER_WITH_HPV_STATE_NAME, INVASIVE_CANCER_STATE_NAME}
    /\ Bernoulli(draw, P_SYMPTOMS)

\* invasive cancer, the symptom draw, and no positive invasive result yet
is_symptomatic(state, result, draw) ==
    /\ state \in {INVASIVE_CANCER_WITH_HPV_STATE_NAME, INVASIVE_CANCER_STATE_NAME}
    /\ Bernoulli(draw, P_SYMPTOMS)
    /\ result \notin {POSITIVE_CERVICAL_CANCER_STATE_NAME,
                      POSITIVE_CERVICAL_CANCER_WITH_HRHPV_STATE_NAME}

\* time_to_next_screening with a triennial mask that ignores the result
time_to_next_screening_triennial_any_result(result, a, draw) ==
    IF a < MID_SCREENING_AGE
    THEN get_normal_dist_random_variable(DAYS_UNTIL_NEXT_TRIENNIAL.mean,
                                         DAYS_UNTIL_NEXT_TRIENNIAL.sd, draw)
    ELSE IF a <= LAST_SCREENING_AGE
         THEN IF result = NEGATIVE_STATE_NAME
              THEN get_normal_dist_random_variable(DAYS_UNTIL_NEXT_QUINQUENNIAL.mean,
                                                   DAYS_UNTIL_NEXT_QUINQUENNIAL.sd, draw)
              ELSE TruncnormDist_ppf(DAYS_UNTIL_NEXT_ANNUAL, draw)
         ELSE NaT

\* time_to_next_screening of _schedule_screening: the masks are applied in
\* the order annual, triennial, quinquennial; None where no mask holds
time_to_next_screening(result, a, draw) ==
    LET annual_screening == /\ result # NEGATIVE_STATE_NAME
                            /\ a <= LAST_SCREENING_AGE
                            /\ a >= FIRST_SCREENING_AGE
        triennial_screening == a < MID_SCREENING_AGE /\ result = NEGATIVE_STATE_NAME
        quinquennial_screening == /\ a >= MID_SCREENING_AGE
                                  /\ a <= LAST_SCREENING_AGE
                                  /\ result = NEGATIVE_STATE_NAME
        t0 == NaT
        t1 == IF annual_screening
              THEN TruncnormDist_ppf(DAYS_UNTIL_NEXT_ANNUAL, draw) ELSE t0
        t2 == IF triennial_screening
              THEN get_normal_dist_random_variable(DAYS_UNTIL_NEXT_TRIENNIAL.mean,
                                                   DAYS_UNTIL_NEXT_TRIENNIAL.sd, draw)
              ELSE t1
    IN  IF quinquennial_screening
        THEN get_normal_dist_random_variable(DAYS_UNTIL_NEXT_QUINQUENNIAL.mean,
                                             DAYS_UNTIL_NEXT_QUINQUENNIAL.sd, draw)
        ELSE t2

\* _schedule_screening with the interval subtracted instead of added
schedule_screening_subtracts(previous_screening, result, a, draw) ==
    DateMinus(previous_screening, time_to_next_screening(result, a, draw))

\* _schedule_screening: previous_screening + time_to_next_screening
schedule_screening(previous_screening, result, a, draw) ==
    DatePlus(previous_screening, time_to_next_screening(result, a, draw))

\* the cotesters mask of _do_screening
cotesters(result, a, has_symptoms) ==
    /\ result \in {NEGATIVE_STATE_NAME, POSITIVE_HRHPV_STATE_NAME}
    /\ MID_SCREENING_AGE <= a /\ a < LAST_SCREENING_AGE
    /\ FIRST_SCREENING_AGE <= a
    /\ ~has_symptoms

\* the screened_remission mask of _do_screening
screened_remission(state, result, a, has_symptoms) ==
    /\ FIRST_SCREENING_AGE <= a /\ a < LAST_SCREENING_AGE
    /\ state = RECOVERED_STATE_NAME
    /\ ~cotesters(result, a, has_symptoms)

\* the cytologists mask of _do_screening
cytologists(state, result, a, has_symptoms) ==
    LET screened == FIRST_SCREENING_AGE <= a /\ a < LAST_SCREENING_AGE
        in_remission == state = RECOVERED_STATE_NAME
        no_cancer == result \in {NEGATIVE_STATE_NAME, POSITIVE_HRHPV_STATE_NAME}
        twentysomething == FIRST_SCREENING_AGE <= a /\ a < MID_SCREENING_AGE
    IN  /\ (~no_cancer \/ twentysomething)
        /\ (~in_remission /\ screened)
        /\ ~has_symptoms

\* cancer_sensitivity of _do_screening: later assignments overwrite earlier
cancer_sensitivity(state, result, a, has_symptoms) ==
    IF cotesters(result, a, has_symptoms) THEN COTEST_CC_SPECIFICITY
    ELSE IF cytologists(state, result, a, has_symptoms) THEN CYTOLOGY_SENSITIVITY
    ELSE IF screened_remission(state, result, a, has_symptoms)
         THEN REMISSION_SENSITIVITY
    ELSE IF has_symptoms THEN HAS_SYMPTOMS_SENSITIVITY
    ELSE 0

\* hrhpv_sensitivity of _do_screening: 0.0 but for the cotesters
hrhpv_sensitivity(result, a, has_symptoms) ==
    IF cotesters(result, a, has_symptoms) THEN COTEST_HPV_SENSITIVITY ELSE 0

\* hrhpv_specificity of _do_screening: 0.0 but for the cotesters
hrhpv_specificity(result, a, has_symptoms) ==
    IF cotesters(result, a, has_symptoms) THEN COTEST_HPV_SPECIFICITY ELSE 0

\* accurate_results_hrhpv of _do_screening: the sensitivity draw for the
\* truly positive, the specificity draw for the truly negative
accurate_results_hrhpv(state, result, a, has_symptoms, d_sens, d_spec) ==
    LET true_pos_hrhpv == state \in {HIGH_RISK_HPV_STATE_NAME,
                                     BENIGN_CANCER_WITH_HPV_STATE_NAME,
                                     INVASIVE_CANCER_WITH_HPV_STATE_NAME}
        true_neg_hrhpv == state \in {SUSCEPTIBLE_STATE_NAME,
                                     BENIGN_CANCER_STATE_NAME,
                                     INVASIVE_CANCER_STATE_NAME}
    IN  IF true_neg_hrhpv
        THEN Bernoulli(d_spec, hrhpv_specificity(result, a, has_symptoms))
        ELSE IF true_pos_hrhpv
             THEN Bernoulli(d_sens, hrhpv_sensitivity(result, a, has_symptoms))
             ELSE TRUE

\* accurate_results_cancer of _do_screening
accurate_results_cancer(state, result, a, has_symptoms, d_cancer) ==
    Bernoulli(d_cancer, cancer_sensitivity(state, result, a, has_symptoms))

\* is_screened_hrhpv_pos of _do_screening: the true status if accurate, its
\* negation if not
is_screened_hrhpv_pos(state, accurate) ==
    IF accurate THEN state \in HPV_POS_STATES ELSE ~(state \in HPV_POS_STATES)

\* screened_cancer_state left at its initial value for an inaccurate test
screened_cancer_state_default(state, result, accurate) ==
    IF accurate THEN get_screening_cancer_model_state(state)
                ELSE SCREENING_CANCER_NEGATIVE_STATE

\* screened_cancer_state of _do_screening: the true stage if accurate, the
\* stage of the result on record if not
screened_cancer_state(state, result, accurate) ==
    IF accurate THEN get_screening_cancer_model_state(state)
                ELSE get_screening_result_cancer_model_state(result)

\* _do_screening for one attendee
do_screening(state, result, a, has_symptoms, d_sens, d_spec, d_cancer) ==
    get_combined_screening_result(
        is_screened_hrhpv_pos(
            state, accurate_results_hrhpv(state, result, a, has_symptoms, d_sens, d_spec)),
        screened_cancer_state(
            state, result, accurate_results_cancer(state, result, a, has_symptoms, d_cancer)))

\* screening_scheduled without the age window
screening_scheduled_any_age(next_date, a, has_symptoms) == DateLe(next_date, clock)

\* screening_scheduled with the dates strictly before the clock time only
screening_scheduled_before_clock(next_date, a, has_symptoms) ==
    /\ next_date # NaT
    /\ next_date < clock
    /\ (within_screening_age(a) \/ has_symptoms)

\* screening_scheduled of on_time_step; next_date has the symptomatic rows
\* set to the clock time
screening_scheduled(next_date, a, has_symptoms) ==
    /\ DateLe(next_date, clock)
    /\ (within_screening_age(a) \/ has_symptoms)

\* attends_screening with the attendance draw applied to symptomatic rows too
attends_screening_draw_only(scheduled, has_symptoms, d_attendance, p_attends_screening) ==
    scheduled /\ Bernoulli(d_attendance, p_attends_screening)

\* attends_screening of on_time_step
attends_screening(scheduled, has_symptoms, d_attendance, p_attends_screening) ==
    /\ scheduled
    /\ (has_symptoms \/ Bernoulli(d_attendance, p_attends_screening))

\* the attendance column overwritten for every row
update_attended_last_screening_all(attended, scheduled, attends) == attends

\* attended_last_screening.loc[screening_scheduled] = attends_screening
update_attended_last_screening(attended, scheduled, attends) ==
    IF scheduled THEN attends ELSE attended

\* the screening result overwritten for every row
update_screening_result_all(result, attends, screened_result) == screened_result

\* screening_result[attends_screening] = self._do_screening(...)
update_screening_result(result, attends, screened_result) ==
    IF attends THEN screened_result ELSE result

\* previous_screening.loc[screening_scheduled] = pop NEXT_SCREENING_DATE
update_previous_screening(previous, scheduled, stored_next) ==
    IF scheduled THEN stored_next ELSE previous

\* the next interval chosen by the result on record before the visit
update_next_screening_stored_result(stored_next, scheduled, result, a, d_schedule) ==
    IF scheduled THEN schedule_screening(stored_next, screening_result, a, d_schedule)
                 ELSE stored_next

\* the next date counted from the clock time instead of the stored date
update_next_screening_from_clock(stored_next, scheduled, result, a, d_schedule) ==
    IF scheduled THEN schedule_screening(clock, result, a, d_schedule)
                 ELSE stored_next

\* next_screening.loc[screening_scheduled] = self._schedule_screening(...)
update_next_screening(stored_next, scheduled, result, a, d_schedule) ==
    IF scheduled THEN schedule_screening(stored_next, result, a, d_schedule)
                 ELSE stored_next

\* has_symptoms of _do_screening taken from the draw of another channel
do_screening_has_symptoms_other_channel(state, result, draws) ==
    is_symptomatic(state, result, draws.attendance)

\* has_symptoms of _do_screening: is_symptomatic over the attendees, with
\* the draw of the step in the channel symptomatic_presentation
do_screening_has_symptoms(state, result, draws) ==
    is_symptomatic(state, result, draws.symptomatic_presentation)

\* the row as ScreeningAlgorithm.on_time_step leaves it, from the draws of
\* the channels symptomatic_presentation, attendance, hrhpv_sensitivity,
\* hrhpv_specificity, cancer_sensitivity and schedule_next
on_time_step(d_symptoms, d_attendance, d_sens, d_spec, d_cancer, d_schedule) ==
    LET has_symptoms == is_symptomatic(cervical_cancer_state, screening_result, d_symptoms)
        next_date == IF has_symptoms THEN clock ELSE next_screening_date
        scheduled == screening_scheduled(next_date, age, has_symptoms)
        attends == attends_screening(
                       scheduled, has_symptoms, d_attendance,
                       probability_attending_screening(attended_last_screening))
        tested_has_symptoms ==
            do_screening_has_symptoms(
                cervical_cancer_state, screening_result,
                [symptomatic_presentation |-> d_symptoms,
                 attendance |-> d_attendance])
        result == update_screening_result(
                      screening_result, attends,
                      do_screening(cervical_cancer_state, screening_result, age,
                                   tested_has_symptoms, d_sens, d_spec, d_cancer))
    IN  [has_symptoms |-> has_symptoms,
         screening_scheduled |-> scheduled,
         attends_screening |-> attends,
         screening_result |-> result,
         attended_last_screening |->
             update_attended_last_screening(attended_last_screening, scheduled, attends),
         previous_screening |->
             update_previous_screening(previous_screening_date, scheduled,
                                       next_screening_date),
         next_screening |->
             update_next_screening(next_screening_date, scheduled, result, age,
                                   d_schedule),
         time_to_next_screening |->
             IF scheduled THEN time_to_next_screening(result, age, d_schedule)
                          ELSE NaT,
         cancer_sensitivity |->
             IF attends
             THEN cancer_sensitivity(cervical_cancer_state, screening_result, age,
                                     tested_has_symptoms)
             ELSE 0,
         accurate_results_cancer |->
             attends /\ accurate_results_cancer(cervical_cancer_state, screening_result,
                                                age, tested_has_symptoms, d_cancer),
         accurate_results_hrhpv |->
             attends /\ accurate_results_hrhpv(cervical_cancer_state, screening_result,
                                               age, tested_has_symptoms, d_sens, d_spec),
         do_screening_has_symptoms |-> attends /\ tested_has_symptoms]

\* on_initialize_simulants with the progress added to the screening start
on_initialize_simulants_progress_added(d_schedule, d_progress, d_attended) ==
    LET result == NEGATIVE_STATE_NAME
        under_screening_age == age < FIRST_SCREENING_AGE
        screening_start ==
            IF within_screening_age(age) THEN clock
            ELSE IF under_screening_age
                 THEN DatePlus(NaT, 365 * (FIRST_SCREENING_AGE - age))
                 ELSE NaT
        time_between_screenings ==
            DateMinus(schedule_screening(screening_start, result, age, d_schedule),
                      screening_start)
        previous_screening ==
            DatePlus(screening_start,
                     TimedeltaTimes(d_progress, time_between_screenings))
    IN  [screening_result |-> result,
         time_to_next_screening |-> time_to_next_screening(result, age, d_schedule),
         previous_screening |-> IF under_screening_age THEN NaT ELSE previous_screening,
         next_screening |-> DatePlus(previous_screening, time_between_screenings),
         attended_previous |->
             Bernoulli(d_attended, PROBABILITY_ATTENDING_SCREENING_START_MEAN)]

\* the columns ScreeningAlgorithm.on_initialize_simulants creates
on_initialize_simulants(d_schedule, d_progress, d_attended) ==
    LET result == NEGATIVE_STATE_NAME
        under_screening_age == age < FIRST_SCREENING_AGE
        \* NaT + timedelta is NaT for the simulants under the screening age
        screening_start ==
            IF within_screening_age(age) THEN clock
            ELSE IF under_screening_age
                 THEN DatePlus(NaT, 365 * (FIRST_SCREENING_AGE - age))
                 ELSE NaT
        time_between_screenings ==
            DateMinus(schedule_screening(screening_start, result, age, d_schedule),
                      screening_start)
        previous_screening ==
            DateMinus(screening_start,
                      TimedeltaTimes(d_progress, time_between_screenings))
    IN  [screening_result |-> result,
         time_to_next_screening |-> time_to_next_screening(result, age, d_schedule),
         previous_screening |-> IF under_screening_age THEN NaT ELSE previous_screening,
         next_screening |-> DatePlus(previous_screening, time_between_screenings),
         attended_previous |->
             Bernoulli(d_attended, PROBABILITY_ATTENDING_SCREENING_START_MEAN)]

-----------------------------------------------------------------------------
(* components/hpvvaccineexposure.py, components/treatment.py *)

\* the latch writing the fresh exposure instead of 'cat2'
latch_exposure_current(cached, current_exp, mask) ==
    IF mask /\ current_exp # cached THEN current_exp ELSE cached

\* cached_exp.loc[mask & (current_exp != cached_exp)] = 'cat2'
latch_exposure(cached, current_exp, mask) ==
    IF mask /\ current_exp # cached THEN "cat2" ELSE cached

\* an age mask that selects every simulant
vaccine_age_mask_every_age(a) == a >= 0

\* HpvVaccineExposure.on_time_step_prepare: the age mask
vaccine_age_mask(a) == a < LAST_VACCINATION_AGE

\* a screening-result mask that selects every positive result
treatment_scr_mask_any_positive(result) == result # NEGATIVE_STATE_NAME

\* TreatmentExposure.on_time_step_prepare: the screening-result mask
treatment_scr_mask(result) ==
    result \in {POSITIVE_BCC_STATE_NAME, POSITIVE_BCC_WITH_HRHPV_STATE_NAME}

-----------------------------------------------------------------------------
(* components/observers.py *)

\* models.STATE_MACHINE_MAP[...]['states'] and ['transitions'] of the two
\* state machines
CERVICAL_CANCER_MODEL_STATES == DiseaseStates
CERVICAL_CANCER_MODEL_TRANSITIONS == CervicalCancer

\* CERVICAL_CANCER_MODEL_TRANSITIONS as constants/models.py lists it, each
\* TransitionString by its from_state and to_state
constants_CERVICAL_CANCER_MODEL_TRANSITIONS ==
    {<<SUSCEPTIBLE_STATE_NAME, HIGH_RISK_HPV_STATE_NAME>>,
     <<SUSCEPTIBLE_STATE_NAME, BENIGN_CANCER_STATE_NAME>>,
     <<BENIGN_CANCER_STATE_NAME, INVASIVE_CANCER_STATE_NAME>>,
     <<HIGH_RISK_HPV_STATE_NAME, BENIGN_CANCER_STATE_NAME>>,
     <<INVASIVE_CANCER_STATE_NAME, RECOVERED_STATE_NAME>>,
     <<HIGH_RISK_HPV_STATE_NAME, SUSCEPTIBLE_STATE_NAME>>}

SCREENING_MODEL_STATES ==
    {NEGATIVE_STATE_NAME, POSITIVE_HRHPV_STATE_NAME, POSITIVE_BCC_STATE_NAME,
     POSITIVE_BCC_WITH_HRHPV_STATE_NAME, POSITIVE_CERVICAL_CANCER_STATE_NAME,
     POSITIVE_CERVICAL_CANCER_WITH_HRHPV_STATE_NAME}

VACCINATED_STATE_NAME == "vaccinated"
NOT_VACCINATED_STATE_NAME == "not_vaccinated"
TREATED_STATE_NAME == "treated"
NOT_TREATED_STATE_NAME == "not_treated"

\* the measures of constants/results.py
SCREENING_SCHEDULED == "screening_scheduled_count"
SCREENING_ATTENDED == "screening_attended_count"
VACCINATED_FOR_HPV == "vaccinated_for_hpv_count"
TREATED_FOR_BCC == "treated_for_bcc_count"

\* results.AGE_COHORTS: f'{2020 - (x + 5)}_to_{2020 - x}', as a pair of years
AGE_COHORTS == {<<2020 - (x + 5), 2020 - x>> : x \in {15 + 5 * k : k \in 0..13}}

\* the '' of a simulant that no cohort takes
NoGroup == <<0, 0>>

\* ResultsStratifier.set_stratification_groups for a simulant of age a:
\* birth_year_bounds[1] <= age < birth_year_bounds[0]
set_stratification_groups(a) ==
    LET mask(c) == 2020 - c[2] <= a /\ a < 2020 - c[1]
    IN  IF \E c \in AGE_COHORTS : mask(c)
        THEN CHOOSE c \in AGE_COHORTS : mask(c)
        ELSE NoGroup

\* self.clock().year: the simulation starts on 2020-01-01, a leap year
Year(d) == IF d < 366 THEN 2020 ELSE 2021 + (d - 366) \div 365

\* the year part of a key of an observer whose by_year is False: the ''
\* of year = f'_in_{self.clock().year}' if self.config['by_year'] else ""
NoYear == 0

\* the sum of the values of a mapping
RECURSIVE Sum(_, _)
Sum(f, S) == IF S = {} THEN 0
             ELSE LET x == CHOOSE x \in S : TRUE IN f[x] + Sum(f, S \ {x})

\* an empty collections.Counter
Counter == [k \in {} |-> 0]

\* Counter.update(mapping) that drops the keys whose count is zero
Counter_update_positive(counter, data) ==
    LET keys == DOMAIN counter \cup {k \in DOMAIN data : data[k] > 0}
    IN  [k \in keys |-> (IF k \in DOMAIN counter THEN counter[k] ELSE 0)
                        + (IF k \in DOMAIN data THEN data[k] ELSE 0)]

\* Counter.update(mapping): the counts are added, and every key stays
Counter_update(counter, data) ==
    [k \in DOMAIN counter \cup DOMAIN data |->
        (IF k \in DOMAIN counter THEN counter[k] ELSE 0)
        + (IF k \in DOMAIN data THEN data[k] ELSE 0)]

\* self.population_view.get(event.index): the row of the simulant, with the
\* columns and pipelines the observers read
population_view_get ==
    IF index = {}
    THEN {}
    ELSE {[stratification_group |-> stratification_groups,
          alive |-> alive,
          cervical_cancer |-> cervical_cancer_state,
          previous_cervical_cancer |-> previous_cervical_cancer,
          screening_result |-> screening_result,
          attended_last_screening |-> attended_last_screening,
          previous_screening_date |-> previous_screening_date,
          vaccination_date |-> vaccination_date,
          treatment_date |-> treatment_date,
          no_hpv_vaccination_exposure |-> vaccine_cached_exp,
          no_bcc_treatment_exposure |-> treatment_cached_exp]}

\* the labels ResultsStratifier.group yields for one age cohort
cohort_labels(age_cohort, by_screening, by_vaccination, by_treatment) ==
    [stratification_key : {age_cohort},
     screening_result : IF by_screening THEN SCREENING_MODEL_STATES ELSE {""},
     vaccination_state : IF by_vaccination
                         THEN {VACCINATED_STATE_NAME, NOT_VACCINATED_STATE_NAME}
                         ELSE {""},
     treatment_state : IF by_treatment
                       THEN {TREATED_STATE_NAME, NOT_TREATED_STATE_NAME}
                       ELSE {""}]

\* the labels ResultsStratifier.group yields, one per stratum
group_labels(by_screening, by_vaccination, by_treatment) ==
    UNION {cohort_labels(c, by_screening, by_vaccination, by_treatment) :
              c \in AGE_COHORTS}

\* the pop_in_group that ResultsStratifier.group yields with label l
pop_in_group(pop, l, by_screening, by_vaccination, by_treatment) ==
    IF pop = {}
    THEN pop
    ELSE {r \in pop :
            /\ r.stratification_group = l.stratification_key
            /\ by_screening => r.screening_result = l.screening_result
            /\ by_vaccination =>
                 (r.vaccination_date # NaT)
                    = (l.vaccination_state = VACCINATED_STATE_NAME)
            /\ by_treatment =>
                 (r.treatment_date # NaT)
                    = (l.treatment_state = TREATED_STATE_NAME)}

\* ScreeningObserver.on_collect_metrics: counts_this_step of every stratum
ScreeningObserver_counts_this_step(pop, now) ==
    LET scheduled_screening(r) ==
            /\ r.previous_screening_date # NaT
            /\ r.previous_screening_date > now - StepDays
    IN  [k \in {SCREENING_SCHEDULED, SCREENING_ATTENDED} \X {Year(now)}
                  \X group_labels(FALSE, FALSE, FALSE) |->
            Cardinality({r \in pop_in_group(pop, k[3], FALSE, FALSE, FALSE) :
                            /\ scheduled_screening(r)
                            /\ k[1] = SCREENING_ATTENDED => r.attended_last_screening})]

\* a mask that takes the simulants with a vaccination date as well
get_vax_this_step_any_date(r) == r.no_hpv_vaccination_exposure = "cat2"

\* VaccinationObserver.get_vax_this_step
get_vax_this_step(r) ==
    r.no_hpv_vaccination_exposure = "cat2" /\ r.vaccination_date = NaT

\* counts_this_step taken from the rows after the dates were written
VaccinationObserver_counts_this_step_after_update(pop) ==
    [k \in {VACCINATED_FOR_HPV} \X {NoYear} \X group_labels(FALSE, FALSE, FALSE) |->
        Cardinality({r \in pop_in_group(pop, k[3], FALSE, FALSE, FALSE) :
                        /\ r.no_hpv_vaccination_exposure = "cat2"
                        /\ (IF get_vax_this_step(r) THEN clock
                                                    ELSE r.vaccination_date) = NaT})]

\* VaccinationObserver.on_collect_metrics: counts_this_step of every stratum
VaccinationObserver_counts_this_step(pop) ==
    [k \in {VACCINATED_FOR_HPV} \X {NoYear} \X group_labels(FALSE, FALSE, FALSE) |->
        Cardinality({r \in pop_in_group(pop, k[3], FALSE, FALSE, FALSE) :
                        get_vax_this_step(r)})]

\* a mask that takes every simulant without a treatment date
get_treated_this_step_any_exposure(r) == r.treatment_date = NaT

\* TreatmentObserver.get_treated_this_step
get_treated_this_step(r) ==
    r.no_bcc_treatment_exposure = "cat2" /\ r.treatment_date = NaT

\* TreatmentObserver.on_collect_metrics: counts_this_step of every stratum
TreatmentObserver_counts_this_step(pop) ==
    [k \in {TREATED_FOR_BCC} \X {NoYear} \X group_labels(FALSE, FALSE, FALSE) |->
        Cardinality({r \in pop_in_group(pop, k[3], FALSE, FALSE, FALSE) :
                        get_treated_this_step(r)})]

\* the 'metrics' pipeline at the end of the run, through the modifiers of
\* the screening, vaccination and treatment observers
metrics ==
    LET update(data, observer_counts) ==
            [k \in DOMAIN data \cup DOMAIN observer_counts |->
                IF k \in DOMAIN observer_counts THEN observer_counts[k]
                                                ELSE data[k]]
    IN  update(update(update(Counter, counts.screening), counts.vaccination),
               counts.treatment)

\* a filter that takes the rows of the state whether alive or not
base_filter_any_row(state, r) == r.cervical_cancer = state

\* get_state_person_time: the rows that accrue person-time in a state
base_filter(state, r) == r.alive /\ r.cervical_cancer = state

\* a mask that takes the rows in the to_state, whatever the snapshot
event_this_step_to_state_only(transition, r) ==
    r.cervical_cancer = transition[2]

\* get_transition_count: the rows that made the transition this step
event_this_step(transition, r) ==
    /\ r.previous_cervical_cancer = transition[1]
    /\ r.cervical_cancer = transition[2]

\* the strata of the StateMachineObserver's stratifier with their rows: the
\* pairs of a label that ResultsStratifier.group yields and a row of its
\* pop_in_group
over_strata(pop) ==
    UNION {{lr \in cohort_labels(c, TRUE, TRUE, TRUE)
                      \X {r \in pop : r.stratification_group = c} :
               lr[2] \in pop_in_group(pop, lr[1], TRUE, TRUE, TRUE)} :
           c \in AGE_COHORTS}

\* StateMachineObserver.on_time_step_prepare: the person-time of the step in
\* every state, summed over the strata
state_person_time_this_step(pop) ==
    LET yielded == over_strata(pop)
    IN  [state \in CERVICAL_CANCER_MODEL_STATES |->
            StepYears * Cardinality({lr \in yielded : base_filter(state, lr[2])})]

\* StateMachineObserver.on_collect_metrics: the count of the step of every
\* transition, summed over the strata
transition_counts_this_step(pop) ==
    LET yielded == over_strata(pop)
    IN  [transition \in CERVICAL_CANCER_MODEL_TRANSITIONS |->
            Cardinality({lr \in yielded : event_this_step(transition, lr[2])})]

-----------------------------------------------------------------------------
(* The simulation: the engine emits the events in order, and every         *)
(* listener is one action.                                                 *)

NoLocals(handler) == [handler |-> handler]

\* the observers a model specification can list among its components
ObserverNames ==
    {"cervical_cancer_observer", "screening_observer", "vaccination_observer",
     "treatment_observer"}

\* the listeners with the person-time listener of the StateMachineObserver
\* called after the listeners of time_step
Listeners_person_time_after_time_step ==
    <<"initialize_simulants", "initialize_simulants_vaccine",
      "initialize_simulants_treatment", "initialize_simulants_stratifier",
      "initialize_simulants_state_machine",
      "initialize_simulants_vaccination_observer",
      "initialize_simulants_treatment_observer",
      "time_step__prepare", "time_step__prepare_treatment",
      "time_step", "time_step_disease", "time_step_mortality",
      "time_step__prepare_state_machine",
      "collect_metrics_state_machine", "collect_metrics_screening",
      "collect_metrics_vaccination", "collect_metrics_treatment", "clock">>

\* the listeners, in the order the engine calls them within one event
Listeners ==
    <<"initialize_simulants", "initialize_simulants_vaccine",
      "initialize_simulants_treatment", "initialize_simulants_stratifier",
      "initialize_simulants_state_machine",
      "initialize_simulants_vaccination_observer",
      "initialize_simulants_treatment_observer",
      "time_step__prepare", "time_step__prepare_treatment",
      "time_step__prepare_state_machine",
      "time_step", "time_step_disease", "time_step_mortality",
      "collect_metrics_state_machine", "collect_metrics_screening",
      "collect_metrics_vaccination", "collect_metrics_treatment", "clock">>

\* the component of a listener is among the components of the simulation
Configured(p) ==
    CASE p = "initialize_simulants_stratifier" -> observers # {}
      [] p \in {"initialize_simulants_state_machine",
                "time_step__prepare_state_machine",
                "collect_metrics_state_machine"} ->
           "cervical_cancer_observer" \in observers
      [] p = "collect_metrics_screening" -> "screening_observer" \in observers
      [] p \in {"initialize_simulants_vaccination_observer",
                "collect_metrics_vaccination"} ->
           "vaccination_observer" \in observers
      [] p \in {"initialize_simulants_treatment_observer",
                "collect_metrics_treatment"} ->
           "treatment_observer" \in observers
      [] OTHER -> TRUE

\* the listener the engine calls after listener p
next_listener(p) ==
    LET i == CHOOSE i \in 1..Len(Listeners) : Listeners[i] = p
        later == {j \in (i + 1)..Len(Listeners) : Configured(Listeners[j])}
    IN  Listeners[CHOOSE j \in later : \A k \in later : j <= k]

\* the Counter objects of the observers after setup; of the person_time and
\* the counts Counter of the StateMachineObserver the model keeps the sum
\* of all the values
NoCounts ==
    [person_time |-> 0,
     transition |-> 0,
     screening |-> Counter,
     vaccination |-> Counter,
     treatment |-> Counter]

\* a simulation without observers
NoObservers ==
    /\ observers = {}
    /\ index = {1}
    /\ stratification_groups = NoGroup
    /\ previous_cervical_cancer = ""
    /\ vaccination_date = NaT
    /\ treatment_date = NaT
    /\ counts = NoCounts

\* the columns and caches of the components that are observed
simulant == <<age, alive, cervical_cancer_state, screening_result,
              attended_last_screening, previous_screening_date,
              next_screening_date, vaccine_cached_exp, treatment_cached_exp>>

Init ==
    /\ pc = "initialize_simulants"
    /\ clock = 0
    /\ age \in InitAges
    /\ alive = TRUE
    /\ cervical_cancer_state \in DiseaseStates
    /\ screening_result = "NA"
    /\ attended_last_screening = FALSE
    /\ previous_screening_date = NaT
    /\ next_screening_date = NaT
    /\ vaccine_cached_exp = "NA"
    /\ treatment_cached_exp = "NA"
    /\ step = NoLocals("setup")
    /\ left_states = {}
    /\ NoObservers

\* ScreeningAlgorithm.on_initialize_simulants
ScreeningAlgorithm_on_initialize_simulants ==
    /\ pc = "initialize_simulants"
    /\ \E d_schedule \in Draws, d_progress \in Draws, d_attended \in Draws :
         LET new == on_initialize_simulants(d_schedule, d_progress, d_attended)
         IN  /\ screening_result' = new.screening_result
             /\ previous_screening_date' = new.previous_screening
             /\ next_screening_date' = new.next_screening
             /\ attended_last_screening' = new.attended_previous
             /\ step' = [handler |-> "ScreeningAlgorithm.on_initialize_simulants",
                         time_to_next_screening |-> new.time_to_next_screening]
    /\ UNCHANGED <<left_states, observed>>
    /\ pc' = "initialize_simulants_vaccine"
    /\ UNCHANGED <<clock, age, alive, cervical_cancer_state,
                   vaccine_cached_exp, treatment_cached_exp>>

\* HpvVaccineExposure.on_initialize_simulants
HpvVaccineExposure_on_initialize_simulants ==
    /\ pc = "initialize_simulants_vaccine"
    /\ \E current_exp \in {"cat1", "cat2"} :
         vaccine_cached_exp' = current_exp
    /\ step' = NoLocals("HpvVaccineExposure.on_initialize_simulants")
    /\ UNCHANGED <<left_states, observed>>
    /\ pc' = "initialize_simulants_treatment"
    /\ UNCHANGED <<clock, age, alive, cervical_cancer_state, screening_result,
                   attended_last_screening, previous_screening_date,
                   next_screening_date, treatment_cached_exp>>

\* TreatmentExposure.on_initialize_simulants
TreatmentExposure_on_initialize_simulants ==
    /\ pc = "initialize_simulants_treatment"
    /\ treatment_cached_exp' = "cat1"
    /\ step' = NoLocals("TreatmentExposure.on_initialize_simulants")
    /\ UNCHANGED <<left_states, observed>>
    /\ pc' = next_listener(pc)
    /\ UNCHANGED <<clock, age, alive, cervical_cancer_state, screening_result,
                   attended_last_screening, previous_screening_date,
                   next_screening_date, vaccine_cached_exp>>

\* HpvVaccineExposure.on_time_step_prepare
HpvVaccineExposure_on_time_step_prepare ==
    /\ pc = "time_step__prepare"
    /\ \E current_exp \in {"cat1", "cat2"} :
         /\ vaccine_cached_exp' =
                latch_exposure(vaccine_cached_exp, current_exp, vaccine_age_mask(age))
         /\ step' = [handler |-> "HpvVaccineExposure.on_time_step_prepare",
                     current_exp |-> current_exp,
                     mask |-> vaccine_age_mask(age),
                     exp_change |-> current_exp # vaccine_cached_exp]
    /\ UNCHANGED <<left_states, observed>>
    /\ pc' = "time_step__prepare_treatment"
    /\ UNCHANGED <<clock, age, alive, cervical_cancer_state, screening_result,
                   attended_last_screening, previous_screening_date,
                   next_screening_date, treatment_cached_exp>>

\* TreatmentExposure.on_time_step_prepare
TreatmentExposure_on_time_step_prepare ==
    /\ pc = "time_step__prepare_treatment"
    /\ \E current_exp \in {"cat1", "cat2"} :
         /\ treatment_cached_exp' =
                latch_exposure(treatment_cached_exp, current_exp,
                               treatment_scr_mask(screening_result))
         /\ step' = [handler |-> "TreatmentExposure.on_time_step_prepare",
                     current_exp |-> current_exp,
                     mask |-> treatment_scr_mask(screening_result),
                     exp_change |-> current_exp # treatment_cached_exp]
    /\ UNCHANGED <<left_states, observed>>
    /\ pc' = next_listener(pc)
    /\ UNCHANGED <<clock, age, alive, cervical_cancer_state, screening_result,
                   attended_last_screening, previous_screening_date,
                   next_screening_date, vaccine_cached_exp>>

\* the values of a draw that the handler reads only for the rows of a mask:
\* a draw that is not read is not enumerated
DrawsFor(mask) == IF mask THEN Draws ELSE {CHOOSE d \in Draws : TRUE}

\* ScreeningAlgorithm.on_time_step: only the rows with alive == "alive".
\* The attendance and schedule_next draws are read for the scheduled rows,
\* the three test draws for the rows that attend.
ScreeningAlgorithm_on_time_step ==
    /\ pc = "time_step"
    /\ IF alive
       THEN \E d_symptoms \in Draws :
            LET any == CHOOSE d \in Draws : TRUE
                scheduled == on_time_step(d_symptoms, any, any, any, any, any).screening_scheduled
            IN  \E d_attendance \in DrawsFor(scheduled), d_schedule \in DrawsFor(scheduled) :
                LET attends == on_time_step(d_symptoms, d_attendance, any, any, any,
                                            d_schedule).attends_screening
                IN  \E d_sens \in DrawsFor(attends), d_spec \in DrawsFor(attends),
                       d_cancer \in DrawsFor(attends) :
                    LET new == on_time_step(d_symptoms, d_attendance, d_sens, d_spec,
                                            d_cancer, d_schedule)
                    IN  /\ screening_result' = new.screening_result
                        /\ previous_screening_date' = new.previous_screening
                        /\ next_screening_date' = new.next_screening
                        /\ attended_last_screening' = new.attended_last_screening
                        /\ step' = [handler |-> "ScreeningAlgorithm.on_time_step",
                                    has_symptoms |-> new.has_symptoms,
                                    screening_scheduled |-> new.screening_scheduled,
                                    attends_screening |-> new.attends_screening,
                                    time_to_next_screening |->
                                        new.time_to_next_screening,
                                    cancer_sensitivity |-> new.cancer_sensitivity,
                                    accurate_results_cancer |->
                                        new.accurate_results_cancer,
                                    accurate_results_hrhpv |->
                                        new.accurate_results_hrhpv,
                                    do_screening_has_symptoms |->
                                        new.do_screening_has_symptoms,
                                    d_attendance |-> d_attendance]
       ELSE /\ UNCHANGED <<screening_result, previous_screening_date,
                           next_screening_date, attended_last_screening>>
            /\ step' = NoLocals("ScreeningAlgorithm.on_time_step")
    /\ UNCHANGED <<left_states, observed>>
    /\ pc' = "time_step_disease"
    /\ UNCHANGED <<clock, age, alive, cervical_cancer_state,
                   vaccine_cached_exp, treatment_cached_exp>>

\* DiseaseModel.on_time_step: an alive simulant stays or takes one transition
DiseaseModel_on_time_step ==
    /\ pc = "time_step_disease"
    /\ IF alive
       THEN cervical_cancer_state' \in transition_set(cervical_cancer_state)
       ELSE UNCHANGED cervical_cancer_state
    /\ step' = [handler |-> "DiseaseModel.on_time_step",
                previous_state |-> cervical_cancer_state]
    /\ UNCHANGED <<left_states, observed>>
    /\ pc' = "time_step_mortality"
    /\ UNCHANGED <<clock, age, alive, screening_result, attended_last_screening,
                   previous_screening_date, next_screening_date,
                   vaccine_cached_exp, treatment_cached_exp>>

\* Mortality.on_time_step: an alive simulant may die
Mortality_on_time_step ==
    /\ pc = "time_step_mortality"
    /\ alive' \in (IF alive THEN {TRUE, FALSE} ELSE {FALSE})
    /\ step' = NoLocals("Mortality.on_time_step")
    /\ UNCHANGED <<left_states, observed>>
    /\ pc' = next_listener(pc)
    /\ UNCHANGED <<clock, age, cervical_cancer_state, screening_result,
                   attended_last_screening, previous_screening_date,
                   next_screening_date, vaccine_cached_exp, treatment_cached_exp>>

\* the engine advances the clock by one step and the living age by it
Tick ==
    /\ pc = "clock"
    /\ clock < (IF observers = {} THEN MaxSteps ELSE MaxObserved) * StepDays
    /\ clock' = clock + StepDays
    /\ age' = IF alive THEN age + StepYears ELSE age
    /\ step' = NoLocals("clock")
    /\ UNCHANGED <<left_states, observed>>
    /\ pc' = "time_step__prepare"
    /\ UNCHANGED <<alive, cervical_cancer_state, screening_result,
                   attended_last_screening, previous_screening_date,
                   next_screening_date, vaccine_cached_exp, treatment_cached_exp>>

Next ==
    \/ ScreeningAlgorithm_on_initialize_simulants
    \/ HpvVaccineExposure_on_initialize_simulants
    \/ TreatmentExposure_on_initialize_simulants
    \/ HpvVaccineExposure_on_time_step_prepare
    \/ TreatmentExposure_on_time_step_prepare
    \/ ScreeningAlgorithm_on_time_step
    \/ DiseaseModel_on_time_step
    \/ Mortality_on_time_step
    \/ Tick

Spec == Init /\ [][Next]_vars

\* the engine runs the listeners of every event and advances the clock until
\* the end of the simulation
SpecFair == Spec /\ WF_vars(Next)

\* A walk through the disease states alone: the simulant of Init, alive and
\* past initialization, takes DiseaseModel transitions step after step and
\* the states it leaves are recorded.
InitDisease ==
    /\ pc = "disease_walk"
    /\ clock = 0
    /\ age \in InitAges
    /\ alive = TRUE
    /\ cervical_cancer_state \in DiseaseStates
    /\ screening_result = NEGATIVE_STATE_NAME
    /\ attended_last_screening = FALSE
    /\ previous_screening_date = NaT
    /\ next_screening_date = NaT
    /\ vaccine_cached_exp = "cat1"
    /\ treatment_cached_exp = "cat1"
    /\ step = NoLocals("setup")
    /\ left_states = {}
    /\ NoObservers

\* DiseaseModel.on_time_step followed by the clock
DiseaseWalk ==
    /\ pc = "disease_walk"
    /\ clock < MaxWalk * StepDays
    /\ cervical_cancer_state' \in transition_set(cervical_cancer_state)
    /\ left_states' = IF cervical_cancer_state' # cervical_cancer_state
                      THEN left_states \cup {cervical_cancer_state}
                      ELSE left_states
    /\ step' = [handler |-> "DiseaseModel.on_time_step",
                previous_state |-> cervical_cancer_state]
    /\ clock' = clock + StepDays
    /\ age' = age + StepYears
    /\ UNCHANGED <<pc, alive, screening_result, attended_last_screening,
                   previous_screening_date, next_screening_date,
                   vaccine_cached_exp, treatment_cached_exp, observed>>

NextDisease == DiseaseWalk

SpecDisease == InitDisease /\ [][NextDisease]_vars

\* The attendance pipeline alone: a simulation configured with either
\* scenario evaluates probability_attending_screening at later and later
\* clock times, for a simulant of either cohort.
ClockDates ==
    {k * StepDays : k \in 0..MaxYears}
        \cup {SCALE_UP_START_DT - 1, SCALE_UP_START_DT,
              (SCALE_UP_START_DT + SCALE_UP_END_DT) \div 2,
              (SCALE_UP_START_DT + SCALE_UP_END_DT) \div 2 + 1,
              SCALE_UP_END_DT - 1, SCALE_UP_END_DT}

InitIntervention ==
    /\ pc = "intervention"
    /\ clock = 0
    /\ age \in InitAges
    /\ alive = TRUE
    /\ cervical_cancer_state = SUSCEPTIBLE_STATE_NAME
    /\ screening_result = NEGATIVE_STATE_NAME
    /\ attended_last_screening \in BOOLEAN
    /\ previous_screening_date = NaT
    /\ next_screening_date = NaT
    /\ vaccine_cached_exp = "cat1"
    /\ treatment_cached_exp = "cat1"
    /\ step \in [handler : {"setup"},
                 scenario : {SCENARIOS.baseline, SCENARIOS.alternative}]
    /\ left_states = {}
    /\ NoObservers

\* Intervention.intervention_effect called by the pipeline with the value
\* of its source; the simulant may have changed cohort since the last call
Intervention_intervention_effect ==
    /\ pc = "intervention"
    /\ \E now \in ClockDates, attended_previous \in BOOLEAN, source \in BOOLEAN :
         LET target == get_screening_attendance_probability(source)
         IN  /\ now >= clock
             /\ clock' = now
             /\ attended_last_screening' = attended_previous
             /\ step' = [handler |-> "Intervention.intervention_effect",
                         scenario |-> step.scenario,
                         target |-> target,
                         result |-> intervention_effect(step.scenario, now,
                                                        attended_previous, target)]
    /\ UNCHANGED <<pc, age, alive, cervical_cancer_state, screening_result,
                   previous_screening_date, next_screening_date,
                   vaccine_cached_exp, treatment_cached_exp, left_states,
                   observed>>

NextIntervention == Intervention_intervention_effect

SpecIntervention == InitIntervention /\ [][NextIntervention]_vars

\* The attendance source alone: a simulation whose setup drew the two
\* screening parameters calls get_screening_attendance_probability for a
\* simulant that attended its last screening or did not.  The multiplier is
\* a normal variable truncated below at 1.0, in hundredths; the base
\* attendance is in thousandths.
InitAttendance ==
    /\ pc = "attendance"
    /\ clock = 0
    /\ age \in ObservedAges
    /\ alive = TRUE
    /\ cervical_cancer_state = SUSCEPTIBLE_STATE_NAME
    /\ screening_result = NEGATIVE_STATE_NAME
    /\ attended_last_screening \in BOOLEAN
    /\ previous_screening_date = NaT
    /\ next_screening_date = NaT
    /\ vaccine_cached_exp = "cat1"
    /\ treatment_cached_exp = "cat1"
    /\ step \in [handler : {"setup"},
                 attended_previous_screening_multiplier :
                     {100, 101, 153, 189, 225, 400},
                 base_screening_attendance :
                     {0, 1, 125, 240, 250, 260, 500, 750, 999, 1000}]
    /\ left_states = {}
    /\ NoObservers

\* ScreeningAlgorithm.get_screening_attendance_probability, called by the
\* pipeline; the simulant may have attended or missed a screening since
ScreeningAlgorithm_get_screening_attendance_probability ==
    /\ pc = "attendance"
    /\ \E attended \in BOOLEAN :
         /\ attended_last_screening' = attended
         /\ step' = [handler |->
                         "ScreeningAlgorithm.get_screening_attendance_probability",
                     attended_previous_screening_multiplier |->
                         step.attended_previous_screening_multiplier,
                     base_screening_attendance |-> step.base_screening_attendance,
                     prob_attending_screening |->
                         prob_attending_screening(
                             attended,
                             step.attended_previous_screening_multiplier,
                             step.base_screening_attendance)]
    /\ UNCHANGED <<pc, clock, age, alive, cervical_cancer_state,
                   screening_result, previous_screening_date,
                   next_screening_date, vaccine_cached_exp,
                   treatment_cached_exp, left_states, observed>>

NextAttendance == ScreeningAlgorithm_get_screening_attendance_probability

SpecAttendance == InitAttendance /\ [][NextAttendance]_vars

-----------------------------------------------------------------------------
(* The exposure caches of a population that is created in batches: here
   index is the index of the state table, and vaccine_cached_exp and
   treatment_cached_exp are the cached_exp Series of the two components,
   functions from their index to the exposure *)

\* the components after __init__: cached_exp = pd.Series() on both
InitBatches ==
    /\ pc = "initialize_simulants_vaccine"
    /\ clock = 0
    /\ age \in ObservedAges
    /\ alive = TRUE
    /\ cervical_cancer_state = SUSCEPTIBLE_STATE_NAME
    /\ screening_result = "NA"
    /\ attended_last_screening = FALSE
    /\ previous_screening_date = NaT
    /\ next_screening_date = NaT
    /\ vaccine_cached_exp = [i \in {} |-> "cat1"]
    /\ treatment_cached_exp = [i \in {} |-> "cat1"]
    /\ step = [handler |-> "__init__", pop_data_index |-> {}, raised |-> ""]
    /\ left_states = {}
    /\ observers = {}
    /\ index = {}
    /\ stratification_groups = NoGroup
    /\ previous_cervical_cancer = ""
    /\ vaccination_date = NaT
    /\ treatment_date = NaT
    /\ counts = NoCounts

\* HpvVaccineExposure.on_initialize_simulants for the batch pop_data: the
\* exposures of the batch are appended to cached_exp
HpvVaccineExposure_on_initialize_simulants_pop_data ==
    /\ pc = "initialize_simulants_vaccine"
    /\ Cardinality(index) < MaxSimulants
    /\ \E n \in 1..(MaxSimulants - Cardinality(index)) :
         LET pop_data_index == (Cardinality(index) + 1)..(Cardinality(index) + n)
         IN  \E exposure \in [pop_data_index -> {"cat1", "cat2"}] :
                /\ index' = index \cup pop_data_index
                /\ vaccine_cached_exp' =
                       [i \in DOMAIN vaccine_cached_exp \cup pop_data_index |->
                           IF i \in pop_data_index THEN exposure[i]
                                                  ELSE vaccine_cached_exp[i]]
                /\ step' = [handler |-> "HpvVaccineExposure.on_initialize_simulants",
                            pop_data_index |-> pop_data_index,
                            raised |-> ""]
    /\ pc' = "initialize_simulants_treatment"
    /\ UNCHANGED <<clock, age, alive, cervical_cancer_state, screening_result,
                   attended_last_screening, previous_screening_date,
                   next_screening_date, treatment_cached_exp, left_states,
                   observers, stratification_groups, previous_cervical_cancer,
                   vaccination_date, treatment_date, counts>>

\* TreatmentExposure.on_initialize_simulants for the batch pop_data:
\* cached_exp is assigned a Series over the index of the batch
TreatmentExposure_on_initialize_simulants_pop_data ==
    /\ pc = "initialize_simulants_treatment"
    /\ step.handler = "HpvVaccineExposure.on_initialize_simulants"
    /\ treatment_cached_exp' = [i \in step.pop_data_index |-> "cat1"]
    /\ step' = [handler |-> "TreatmentExposure.on_initialize_simulants",
                pop_data_index |-> step.pop_data_index,
                raised |-> ""]
    /\ pc' = "time_step__prepare"
    /\ UNCHANGED <<clock, age, alive, cervical_cancer_state, screening_result,
                   attended_last_screening, previous_screening_date,
                   next_screening_date, vaccine_cached_exp, left_states,
                   observed>>

\* HpvVaccineExposure.on_time_step_prepare over event.index, the whole
\* state table; the ages of the simulants give the age_mask
HpvVaccineExposure_on_time_step_prepare_event_index ==
    /\ pc = "time_step__prepare"
    /\ step.handler # "__init__"
    /\ \E current_exp \in [index -> {"cat1", "cat2"}],
          age_mask \in [index -> BOOLEAN] :
         vaccine_cached_exp' =
             [i \in index |->
                 latch_exposure(vaccine_cached_exp[i], current_exp[i], age_mask[i])]
    /\ step' = [handler |-> "HpvVaccineExposure.on_time_step_prepare",
                pop_data_index |-> {},
                raised |-> ""]
    /\ pc' = "time_step__prepare_treatment"
    /\ UNCHANGED <<clock, age, alive, cervical_cancer_state, screening_result,
                   attended_last_screening, previous_screening_date,
                   next_screening_date, treatment_cached_exp, left_states,
                   observed>>

\* TreatmentExposure.on_time_step_prepare over event.index; the screening
\* results of the simulants give the scr_mask. The comparison of current_exp
\* with a cached_exp of another index raises ValueError. After the
\* listeners of the step the engine takes the next step or a batch of new
\* simulants is created.
TreatmentExposure_on_time_step_prepare_event_index ==
    /\ pc = "time_step__prepare_treatment"
    /\ step.handler = "HpvVaccineExposure.on_time_step_prepare"
    /\ IF DOMAIN treatment_cached_exp # index
       THEN /\ step' = [handler |-> "TreatmentExposure.on_time_step_prepare",
                        pop_data_index |-> {},
                        raised |-> "ValueError"]
            /\ pc' = "raised"
            /\ UNCHANGED treatment_cached_exp
       ELSE /\ \E current_exp \in [index -> {"cat1", "cat2"}],
                  scr_mask \in [index -> BOOLEAN] :
                 treatment_cached_exp' =
                     [i \in index |->
                         latch_exposure(treatment_cached_exp[i], current_exp[i],
                                        scr_mask[i])]
            /\ step' = [handler |-> "TreatmentExposure.on_time_step_prepare",
                        pop_data_index |-> {},
                        raised |-> ""]
            /\ pc' \in {"time_step__prepare", "initialize_simulants_vaccine"}
    /\ UNCHANGED <<clock, age, alive, cervical_cancer_state, screening_result,
                   attended_last_screening, previous_screening_date,
                   next_screening_date, vaccine_cached_exp, left_states,
                   observed>>

NextBatches ==
    \/ HpvVaccineExposure_on_initialize_simulants_pop_data
    \/ TreatmentExposure_on_initialize_simulants_pop_data
    \/ HpvVaccineExposure_on_time_step_prepare_event_index
    \/ TreatmentExposure_on_time_step_prepare_event_index

SpecBatches == InitBatches /\ [][NextBatches]_vars

\* get_data_functions=None of a declaration
None == {"None"}

\* the get_data_functions of a declared transition: None, or a dictionary,
\* given by its keys
GetDataFunctions ==
    {None, {}, {"transition_rate"}, {"incidence_rate"},
     {"transition_rate", "incidence_rate"}}

\* the output states of the declared transitions
BuildOutputs == {SUSCEPTIBLE_STATE_NAME, BENIGN_CANCER_WITH_HPV_STATE_NAME}

\* RateTransition(self, output, get_data_functions): the transition keeps
\* the dictionary, an empty one for None
RateTransition(output, get_data_functions) ==
    [transition |-> "RateTransition",
     output |-> output,
     get_data_functions |->
         IF get_data_functions = None THEN {} ELSE get_data_functions]

\* a transition that the state keeps before the data functions are looked at
add_transition_appends_first(transitions, output, get_data_functions) ==
    [raised |-> IF get_data_functions = None
                   \/ "transition_rate" \notin get_data_functions
                THEN "ValueError"
                ELSE "",
     transition_set |->
         Append(transitions, RateTransition(output, get_data_functions))]

\* DiseaseState.add_transition with source_data_type 'rate': what is raised
\* and the transition set of the state afterwards
add_transition(transitions, output, get_data_functions) ==
    IF get_data_functions = None \/ "transition_rate" \notin get_data_functions
    THEN [raised |-> "ValueError", transition_set |-> transitions]
    ELSE [raised |-> "",
          transition_set |->
              Append(transitions, RateTransition(output, get_data_functions))]

\* RateTransition.load_transition_rate_data: what is raised
load_transition_rate_data(t) ==
    IF "transition_rate" \in t.get_data_functions THEN "" ELSE "ValueError"

\* The model is built and set up: transitions are declared on a DiseaseState
\* of the model, then the components are set up, every RateTransition loading
\* its rate data, then the time steps are taken.  The state may hold a
\* RateTransition that was constructed and appended without add_transition.
InitBuild ==
    /\ pc = "build"
    /\ clock = 0
    /\ age \in ObservedAges
    /\ alive = TRUE
    /\ cervical_cancer_state = HIGH_RISK_HPV_STATE_NAME
    /\ screening_result = "NA"
    /\ attended_last_screening = FALSE
    /\ previous_screening_date = NaT
    /\ next_screening_date = NaT
    /\ vaccine_cached_exp = "NA"
    /\ treatment_cached_exp = "NA"
    /\ \E declared \in {<<>>} \cup {<<RateTransition(o, g)>> :
                                       o \in BuildOutputs, g \in GetDataFunctions} :
         step = [handler |-> "DiseaseState.__init__",
                 transition_set |-> declared,
                 raised |-> "",
                 loaded |-> 0]
    /\ left_states = {}
    /\ NoObservers

\* DiseaseState.add_transition, called while CervicalCancer() builds the
\* model; a source_data_type other than 'rate' is handed to the class of the
\* library, which raises or adds a transition of its own
DiseaseState_add_transition ==
    /\ pc = "build"
    /\ Len(step.transition_set) < MaxTransitions
    /\ \E output \in BuildOutputs,
          source_data_type \in {"rate", "proportion", "None"},
          get_data_functions \in GetDataFunctions,
          super_raises \in BOOLEAN :
         LET result ==
                 IF source_data_type = "rate"
                 THEN add_transition(step.transition_set, output,
                                     get_data_functions)
                 ELSE IF super_raises
                 THEN [raised |-> "ValueError",
                       transition_set |-> step.transition_set]
                 ELSE [raised |-> "",
                       transition_set |->
                           Append(step.transition_set,
                                  [transition |-> "Transition",
                                   output |-> output,
                                   get_data_functions |-> {}])]
         IN  /\ source_data_type = "rate" => ~super_raises
             /\ step' = [handler |-> "DiseaseState.add_transition",
                         transition_set |-> result.transition_set,
                         raised |-> result.raised,
                         loaded |-> 0,
                         source_data_type |-> source_data_type,
                         get_data_functions |-> get_data_functions]
             /\ pc' = IF result.raised # "" THEN "raised" ELSE "build"
    /\ UNCHANGED <<clock, simulant, left_states, observed>>

\* the model is built and the components are set up
DiseaseModel_setup ==
    /\ pc = "build"
    /\ step' = [handler |-> "DiseaseModel.setup",
                transition_set |-> step.transition_set,
                raised |-> "",
                loaded |-> 0]
    /\ pc' = "setup"
    /\ UNCHANGED <<clock, simulant, left_states, observed>>

\* the setup of the next transition of the state: a RateTransition loads
\* its rate data
Transition_setup ==
    /\ pc = "setup"
    /\ step.loaded < Len(step.transition_set)
    /\ LET t == step.transition_set[step.loaded + 1]
           raised == IF t.transition = "RateTransition"
                     THEN load_transition_rate_data(t)
                     ELSE ""
       IN  /\ step' = [handler |-> "Transition.setup",
                       transition_set |-> step.transition_set,
                       raised |-> raised,
                       loaded |-> step.loaded + 1]
           /\ pc' = IF raised # "" THEN "raised" ELSE "setup"
    /\ UNCHANGED <<clock, simulant, left_states, observed>>

\* a time step of the simulation that was set up
Built_time_step ==
    /\ \/ pc = "setup" /\ step.loaded = Len(step.transition_set)
       \/ pc = "running"
    /\ clock < MaxSteps * StepDays
    /\ step' = [handler |-> "DiseaseModel.on_time_step",
                transition_set |-> step.transition_set,
                raised |-> "",
                loaded |-> step.loaded]
    /\ pc' = "running"
    /\ clock' = clock + StepDays
    /\ UNCHANGED <<simulant, left_states, observed>>

NextBuild ==
    \/ DiseaseState_add_transition
    \/ DiseaseModel_setup
    \/ Transition_setup
    \/ Built_time_step

SpecBuild == InitBuild /\ [][NextBuild]_vars

\* The simulation with its observers: the simulant of Init in a simulation
\* whose components include the four observers.
InitObservers ==
    /\ pc = "initialize_simulants"
    /\ clock = 0
    /\ age \in ObservedAges
    /\ alive = TRUE
    /\ cervical_cancer_state
          \in {SUSCEPTIBLE_STATE_NAME, BENIGN_CANCER_WITH_HPV_STATE_NAME}
    /\ screening_result = "NA"
    /\ attended_last_screening = FALSE
    /\ previous_screening_date = NaT
    /\ next_screening_date = NaT
    /\ vaccine_cached_exp = "NA"
    /\ treatment_cached_exp = "NA"
    /\ step = NoLocals("setup")
    /\ left_states = {}
    /\ observers = ObserverNames
    /\ index = {1}
    /\ stratification_groups = NoGroup
    /\ previous_cervical_cancer = ""
    /\ vaccination_date = NaT
    /\ treatment_date = NaT
    /\ counts = NoCounts

\* ResultsStratifier.on_initialize_simulants
ResultsStratifier_on_initialize_simulants ==
    /\ pc = "initialize_simulants_stratifier"
    /\ stratification_groups' = set_stratification_groups(age)
    /\ step' = NoLocals("ResultsStratifier.on_initialize_simulants")
    /\ pc' = next_listener(pc)
    /\ UNCHANGED <<clock, simulant, left_states, observers, index,
                   previous_cervical_cancer, vaccination_date, treatment_date,
                   counts>>

\* StateMachineObserver.on_initialize_simulants
StateMachineObserver_on_initialize_simulants ==
    /\ pc = "initialize_simulants_state_machine"
    /\ previous_cervical_cancer' = ""
    /\ step' = NoLocals("StateMachineObserver.on_initialize_simulants")
    /\ pc' = next_listener(pc)
    /\ UNCHANGED <<clock, simulant, left_states, observers, index,
                   stratification_groups, vaccination_date, treatment_date,
                   counts>>

\* VaccinationObserver.on_initialize_simulants
VaccinationObserver_on_initialize_simulants ==
    /\ pc = "initialize_simulants_vaccination_observer"
    /\ vaccination_date' = NaT
    /\ step' = NoLocals("VaccinationObserver.on_initialize_simulants")
    /\ pc' = next_listener(pc)
    /\ UNCHANGED <<clock, simulant, left_states, observers, index,
                   stratification_groups, previous_cervical_cancer,
                   treatment_date, counts>>

\* TreatmentObserver.on_initialize_simulants
TreatmentObserver_on_initialize_simulants ==
    /\ pc = "initialize_simulants_treatment_observer"
    /\ treatment_date' = NaT
    /\ step' = NoLocals("TreatmentObserver.on_initialize_simulants")
    /\ pc' = next_listener(pc)
    /\ UNCHANGED <<clock, simulant, left_states, observers, index,
                   stratification_groups, previous_cervical_cancer,
                   vaccination_date, counts>>

\* StateMachineObserver.on_time_step_prepare
StateMachineObserver_on_time_step_prepare ==
    /\ pc = "time_step__prepare_state_machine"
    /\ LET this_step == state_person_time_this_step(population_view_get)
       IN  /\ counts' = [counts EXCEPT
                            !.person_time = @ + Sum(this_step, DOMAIN this_step)]
           /\ step' = [handler |-> "StateMachineObserver.on_time_step_prepare",
                       state_person_time_this_step |-> this_step]
    /\ previous_cervical_cancer' =
           IF index = {} THEN previous_cervical_cancer ELSE cervical_cancer_state
    /\ pc' = next_listener(pc)
    /\ UNCHANGED <<clock, simulant, left_states, observers, index,
                   stratification_groups, vaccination_date, treatment_date>>

\* StateMachineObserver.on_collect_metrics
StateMachineObserver_on_collect_metrics ==
    /\ pc = "collect_metrics_state_machine"
    /\ LET this_step == transition_counts_this_step(population_view_get)
       IN  /\ counts' = [counts EXCEPT
                            !.transition = @ + Sum(this_step, DOMAIN this_step)]
           /\ step' = [handler |-> "StateMachineObserver.on_collect_metrics",
                       transition_counts_this_step |-> this_step]
    /\ pc' = next_listener(pc)
    /\ UNCHANGED <<clock, simulant, left_states, observers, index,
                   stratification_groups, previous_cervical_cancer,
                   vaccination_date, treatment_date>>

\* ScreeningObserver.on_collect_metrics
ScreeningObserver_on_collect_metrics ==
    /\ pc = "collect_metrics_screening"
    /\ LET this_step ==
               ScreeningObserver_counts_this_step(population_view_get, clock)
       IN  /\ counts' = [counts EXCEPT
                            !.screening = Counter_update(@, this_step)]
           /\ step' = [handler |-> "ScreeningObserver.on_collect_metrics",
                       counts_this_step |-> this_step]
    /\ pc' = next_listener(pc)
    /\ UNCHANGED <<clock, simulant, left_states, observers, index,
                   stratification_groups, previous_cervical_cancer,
                   vaccination_date, treatment_date>>

\* VaccinationObserver.on_collect_metrics: the dates are written first, and
\* the counts are taken from the rows as they were read before
VaccinationObserver_on_collect_metrics ==
    /\ pc = "collect_metrics_vaccination"
    /\ LET pop == population_view_get
           this_step == VaccinationObserver_counts_this_step(pop)
       IN  /\ vaccination_date' =
                  IF \E r \in pop : get_vax_this_step(r)
                  THEN clock
                  ELSE vaccination_date
           /\ counts' = [counts EXCEPT
                            !.vaccination = Counter_update(@, this_step)]
           /\ step' = [handler |-> "VaccinationObserver.on_collect_metrics",
                       counts_this_step |-> this_step]
    /\ pc' = next_listener(pc)
    /\ UNCHANGED <<clock, simulant, left_states, observers, index,
                   stratification_groups, previous_cervical_cancer,
                   treatment_date>>

\* TreatmentObserver.on_collect_metrics: the dates are written first, and
\* the counts are taken from the rows as they were read before
TreatmentObserver_on_collect_metrics ==
    /\ pc = "collect_metrics_treatment"
    /\ LET pop == population_view_get
           this_step == TreatmentObserver_counts_this_step(pop)
       IN  /\ treatment_date' =
                  IF \E r \in pop : get_treated_this_step(r)
                  THEN clock
                  ELSE treatment_date
           /\ counts' = [counts EXCEPT
                            !.treatment = Counter_update(@, this_step)]
           /\ step' = [handler |-> "TreatmentObserver.on_collect_metrics",
                       counts_this_step |-> this_step]
    /\ pc' = next_listener(pc)
    /\ UNCHANGED <<clock, simulant, left_states, observers, index,
                   stratification_groups, previous_cervical_cancer,
                   vaccination_date>>

NextObservers ==
    \/ Next
    \/ ResultsStratifier_on_initialize_simulants
    \/ StateMachineObserver_on_initialize_simulants
    \/ VaccinationObserver_on_initialize_simulants
    \/ TreatmentObserver_on_initialize_simulants
    \/ StateMachineObserver_on_time_step_prepare
    \/ StateMachineObserver_on_collect_metrics
    \/ ScreeningObserver_on_collect_metrics
    \/ VaccinationObserver_on_collect_metrics
    \/ TreatmentObserver_on_collect_metrics

SpecObservers == InitObservers /\ [][NextObservers]_vars

\* The observers alone: the listeners of the observers of one step are
\* called for a state table that is empty or holds one row, whose columns
\* are drawn from the values the components write.
InitMetrics ==
    /\ pc \in {"time_step__prepare_state_machine", "collect_metrics_state_machine"}
    /\ clock = StepDays
    /\ age \in ObservedAges
    /\ alive \in BOOLEAN
    /\ cervical_cancer_state \in DiseaseStates
    /\ screening_result \in {NEGATIVE_STATE_NAME, POSITIVE_BCC_WITH_HRHPV_STATE_NAME}
    /\ attended_last_screening \in BOOLEAN
    /\ previous_screening_date \in {NaT, clock}
    /\ next_screening_date = NaT
    /\ vaccine_cached_exp \in {"cat1", "cat2"}
    /\ treatment_cached_exp \in {"cat1", "cat2"}
    /\ step = NoLocals("setup")
    /\ left_states = {}
    /\ observers = ObserverNames
    /\ index \in {{}, {1}}
    /\ stratification_groups = set_stratification_groups(age)
    /\ previous_cervical_cancer \in {SUSCEPTIBLE_STATE_NAME, cervical_cancer_state}
    /\ vaccination_date \in {NaT, 0}
    /\ treatment_date \in {NaT, 0}
    /\ counts = NoCounts

NextMetrics ==
    \/ StateMachineObserver_on_time_step_prepare
    \/ StateMachineObserver_on_collect_metrics
    \/ ScreeningObserver_on_collect_metrics
    \/ VaccinationObserver_on_collect_metrics
    \/ TreatmentObserver_on_collect_metrics

SpecMetrics == InitMetrics /\ [][NextMetrics]_vars

TypeOK ==
    /\ clock \in 0..(MaxSteps * StepDays)
    /\ left_states = {}
    /\ cervical_cancer_state \in DiseaseStates
    /\ alive \in BOOLEAN

-----------------------------------------------------------------------------
(* Properties *)

Screened == alive /\ step.handler = "ScreeningAlgorithm.on_time_step"

\* C1: after on_initialize_simulants and after every on_time_step, a
\* simulant with both screening dates defined has
\* next_screening_date >= previous_screening_date.
C1_NextNotBeforePrevious ==
    (previous_screening_date # NaT /\ next_screening_date # NaT)
        => next_screening_date >= previous_screening_date

\* C1 witness: a screening was scheduled in a step and both dates are defined
C1_Witness ==
    /\ Screened
    /\ step.screening_scheduled
    /\ previous_screening_date # NaT
    /\ next_screening_date # NaT
    /\ next_screening_date > previous_screening_date

\* C2: in on_time_step attended_last_screening becomes whether the simulant
\* attended when its screening is scheduled in the step, and keeps its value
\* for every simulant that is not scheduled (or not alive).
C2_AttendedOnlyWhenScheduled ==
    [][pc = "time_step" =>
          IF alive /\ step'.screening_scheduled
          THEN attended_last_screening' = step'.attends_screening
          ELSE attended_last_screening' = attended_last_screening]_vars

\* C2 witness: an unscheduled simulant whose last screening was attended,
\* after on_time_step
C2_Witness ==
    /\ Screened
    /\ ~step.screening_scheduled
    /\ attended_last_screening
    /\ within_screening_age(age)

\* C3: a cached exposure that is cat2 is cat2 after every later step, for
\* the vaccination and for the treatment exposure.
C3_ExposureNeverReverts ==
    [][/\ vaccine_cached_exp = "cat2" => vaccine_cached_exp' = "cat2"
       /\ treatment_cached_exp = "cat2" => treatment_cached_exp' = "cat2"]_vars

\* C3 witness: time_step__prepare computed a fresh cat1 for a masked simulant
\* whose cached treatment exposure is cat2, the vaccination cache being cat2
C3_Witness ==
    /\ step.handler = "TreatmentExposure.on_time_step_prepare"
    /\ step.current_exp = "cat1"
    /\ step.mask
    /\ treatment_cached_exp = "cat2"
    /\ vaccine_cached_exp = "cat2"

\* the twelve edges the disease model is said to have
TwelveEdges ==
    {<<"susceptible_to_cervical_cancer", "high_risk_hpv">>,
     <<"susceptible_to_cervical_cancer", "benign_cervical_cancer">>,
     <<"high_risk_hpv", "benign_cervical_cancer_with_hpv">>,
     <<"high_risk_hpv", "susceptible_to_cervical_cancer">>,
     <<"benign_cervical_cancer", "cervical_cancer">>,
     <<"benign_cervical_cancer", "benign_cervical_cancer_with_hpv">>,
     <<"benign_cervical_cancer_with_hpv", "cervical_cancer_with_hpv">>,
     <<"benign_cervical_cancer_with_hpv", "benign_cervical_cancer">>,
     <<"cervical_cancer", "recovered_from_cervical_cancer">>,
     <<"cervical_cancer", "cervical_cancer_with_hpv">>,
     <<"cervical_cancer_with_hpv", "recovered_from_cervical_cancer">>,
     <<"cervical_cancer_with_hpv", "cervical_cancer">>}

\* C4: the disease state is always one of the seven states, and a step
\* either keeps it or moves it along one of the twelve edges.
C4_SevenStatesTwelveEdges ==
    /\ [](cervical_cancer_state \in
            {"susceptible_to_cervical_cancer", "high_risk_hpv",
             "benign_cervical_cancer", "benign_cervical_cancer_with_hpv",
             "cervical_cancer", "cervical_cancer_with_hpv",
             "recovered_from_cervical_cancer"})
    /\ [][\/ cervical_cancer_state' = cervical_cancer_state
          \/ <<cervical_cancer_state, cervical_cancer_state'>> \in TwelveEdges]_vars

\* C4 witness: the disease model moved a simulant along an edge
C4_Witness ==
    /\ step.handler = "DiseaseModel.on_time_step"
    /\ step.previous_state = BENIGN_CANCER_WITH_HPV_STATE_NAME
    /\ cervical_cancer_state = INVASIVE_CANCER_WITH_HPV_STATE_NAME

LateStates ==
    {INVASIVE_CANCER_STATE_NAME, INVASIVE_CANCER_WITH_HPV_STATE_NAME,
     RECOVERED_STATE_NAME}

\* C5: a simulant in an invasive or the recovered state is in one of those
\* states after every step, so it is never again susceptible, high_risk_hpv
\* or benign; a recovered simulant stays recovered.
C5_NoReturnFromInvasive ==
    [][/\ cervical_cancer_state \in LateStates
            => cervical_cancer_state' \in LateStates
       /\ cervical_cancer_state = RECOVERED_STATE_NAME
            => cervical_cancer_state' = RECOVERED_STATE_NAME]_vars

\* C5 witness: the disease model took an invasive simulant to recovered
C5_Witness ==
    /\ step.handler = "DiseaseModel.on_time_step"
    /\ step.previous_state = INVASIVE_CANCER_STATE_NAME
    /\ cervical_cancer_state = RECOVERED_STATE_NAME

\* the stage of a disease state, whatever its HPV status
Stage(s) ==
    CASE s \in {SUSCEPTIBLE_STATE_NAME, HIGH_RISK_HPV_STATE_NAME} -> 0
      [] s \in {BENIGN_CANCER_STATE_NAME, BENIGN_CANCER_WITH_HPV_STATE_NAME} -> 1
      [] s \in {INVASIVE_CANCER_STATE_NAME, INVASIVE_CANCER_WITH_HPV_STATE_NAME} -> 2
      [] s = RECOVERED_STATE_NAME -> 3

\* C6 as stated: no sequence of steps brings a simulant back into a disease
\* state it has left.
C6_NeverBackInLeftState == cervical_cancer_state \notin left_states

\* C6 amended: the stage of the disease state never decreases, and a
\* simulant is back in a state it has left only by an HPV toggle within the
\* stage: the states it left are of its stage or of earlier ones.
C6_StageNeverDecreases ==
    /\ [][Stage(cervical_cancer_state') >= Stage(cervical_cancer_state)]_vars
    /\ [](\A s \in left_states : Stage(s) <= Stage(cervical_cancer_state))

\* C6 witness: a simulant back in a state it has left, after an earlier stage
C6_Witness ==
    /\ cervical_cancer_state \in left_states
    /\ \E s \in left_states : Stage(s) < Stage(cervical_cancer_state)

\* C7: in on_time_step screening_result changes only for the simulants who
\* attend in the step; who does not attend keeps it.
C7_ResultOnlyWhenAttended ==
    [][pc = "time_step" =>
          \/ alive /\ step'.attends_screening
          \/ screening_result' = screening_result]_vars

\* C7 witness: a simulant scheduled but absent, with a positive result on
\* record while its disease state is susceptible
C7_Witness ==
    /\ Screened
    /\ step.screening_scheduled
    /\ ~step.attends_screening
    /\ screening_result = POSITIVE_HRHPV_STATE_NAME
    /\ cervical_cancer_state = SUSCEPTIBLE_STATE_NAME

\* C8 as stated: a simulant outside the window and not symptomatic is not
\* scheduled and does not attend; a simulant within the window is scheduled
\* exactly when its next_screening_date is at or before the clock time.
C8_ScheduledExactlyWhenDue ==
    [][(pc = "time_step" /\ alive) =>
          /\ (~within_screening_age(age) /\ ~step'.has_symptoms)
                => (~step'.screening_scheduled /\ ~step'.attends_screening)
          /\ within_screening_age(age)
                => (step'.screening_scheduled <=> DateLe(next_screening_date, clock))]_vars

\* C8 amended: a simulant outside the window and not symptomatic is not
\* scheduled and does not attend; a simulant within the window is scheduled
\* exactly when it is symptomatic or its next_screening_date is at or before
\* the clock time.
C8_ScheduledWhenDueOrSymptomatic ==
    [][(pc = "time_step" /\ alive) =>
          /\ (~within_screening_age(age) /\ ~step'.has_symptoms)
                => (~step'.screening_scheduled /\ ~step'.attends_screening)
          /\ within_screening_age(age)
                => (step'.screening_scheduled <=>
                        (step'.has_symptoms \/ DateLe(next_screening_date, clock)))]_vars

\* C8 witness: a simulant past the window whose date was due and who was not
\* scheduled
C8_Witness ==
    /\ Screened
    /\ age > LAST_SCREENING_AGE
    /\ DateLe(next_screening_date, clock)
    /\ ~step.has_symptoms
    /\ ~step.screening_scheduled

\* C9: a symptomatic simulant is scheduled and attends in the same step,
\* whatever its next_screening_date, age and attendance draw, and its
\* attended_last_screening is true after the step.
C9_SymptomaticAttends ==
    [][(pc = "time_step" /\ alive /\ step'.has_symptoms) =>
          /\ step'.screening_scheduled
          /\ step'.attends_screening
          /\ attended_last_screening']_vars

\* C9 witness: a symptomatic simulant past the window with a missing date
\* and an attendance draw above every attendance probability
C9_Witness ==
    /\ Screened
    /\ step.has_symptoms
    /\ step.d_attendance = 999
    /\ age > LAST_SCREENING_AGE
    /\ previous_screening_date = NaT

\* the intervals the scheduler can draw for a result and an age
Intervals(result, a) == {time_to_next_screening(result, a, d) : d \in Draws}

\* C10 as stated: for every simulant scheduled in a step, next_screening_date
\* after the step is a defined date, the date it replaced plus a newly drawn
\* interval.
C10_ScheduledGetsNextDate ==
    [][(pc = "time_step" /\ alive /\ step'.screening_scheduled) =>
          /\ next_screening_date' # NaT
          /\ \E i \in Intervals(screening_result', age) \ {NaT} :
                next_screening_date' = next_screening_date + i]_vars

\* C10 amended: for every simulant scheduled in a step whose age is within
\* [FIRST_SCREENING_AGE, LAST_SCREENING_AGE] and whose next_screening_date is
\* defined, next_screening_date after the step is a defined date, the date
\* it replaced plus a newly drawn interval; for a scheduled simulant outside
\* the window or with a missing date it is missing after the step.
C10_ScheduledInWindowGetsNextDate ==
    [][(pc = "time_step" /\ alive /\ step'.screening_scheduled) =>
          IF within_screening_age(age) /\ next_screening_date # NaT
          THEN /\ next_screening_date' # NaT
               /\ \E i \in Intervals(screening_result', age) \ {NaT} :
                     next_screening_date' = next_screening_date + i
          ELSE next_screening_date' = NaT]_vars

\* C10 witness: a scheduled simulant who did not attend got a later date
C10_Witness ==
    /\ Screened
    /\ step.screening_scheduled
    /\ ~step.attends_screening
    /\ previous_screening_date # NaT
    /\ next_screening_date # NaT
    /\ next_screening_date > clock

\* the days the annual, triennial and quinquennial distributions give for
\* the draws
AnnualDays == {TruncnormDist_ppf(DAYS_UNTIL_NEXT_ANNUAL, d) : d \in Draws}
TriennialDays ==
    {get_normal_dist_random_variable(DAYS_UNTIL_NEXT_TRIENNIAL.mean,
                                     DAYS_UNTIL_NEXT_TRIENNIAL.sd, d) : d \in Draws}
QuinquennialDays ==
    {get_normal_dist_random_variable(DAYS_UNTIL_NEXT_QUINQUENNIAL.mean,
                                     DAYS_UNTIL_NEXT_QUINQUENNIAL.sd, d) : d \in Draws}

\* C11: when a scheduled simulant has a negative screening_result after the
\* step, next_screening_date - previous_screening_date is a triennial
\* interval when its age is below MID_SCREENING_AGE and a quinquennial one
\* when its age is in [30, 65], and never an annual one.
C11_NegativeNeverAnnual ==
    [][(/\ pc = "time_step" /\ alive /\ step'.screening_scheduled
        /\ screening_result' = NEGATIVE_STATE_NAME) =>
          /\ previous_screening_date' # NaT
          /\ next_screening_date' # NaT
          /\ LET i == next_screening_date' - previous_screening_date'
             IN  /\ i \notin AnnualDays
                 /\ IF age < MID_SCREENING_AGE
                    THEN i \in TriennialDays
                    ELSE age <= LAST_SCREENING_AGE /\ i \in QuinquennialDays]_vars

\* C11 witness: an attendee of 30 or older tested negative and got a
\* quinquennial interval
C11_Witness ==
    /\ Screened
    /\ step.attends_screening
    /\ screening_result = NEGATIVE_STATE_NAME
    /\ age >= MID_SCREENING_AGE
    /\ previous_screening_date # NaT
    /\ next_screening_date # NaT
    /\ next_screening_date - previous_screening_date \in QuinquennialDays

\* a call of _schedule_screening: by on_initialize_simulants for every new
\* simulant, by on_time_step for the scheduled ones
ScheduleCalled ==
    \/ pc = "initialize_simulants"
    \/ pc = "time_step" /\ alive /\ step'.screening_scheduled

Modified == step.handler = "Intervention.intervention_effect"

\* C13: under the baseline scenario intervention_effect returns its input
\* probability unchanged, for either value of attended_last_screening and
\* for clock times before, inside and after the scale-up window.
C13_BaselineUnchanged ==
    (Modified /\ step.scenario = "baseline") => step.result = step.target

\* C13 witness: a baseline evaluation inside the scale-up window for a
\* simulant who attended its last screening
C13_Witness ==
    /\ Modified
    /\ step.scenario = "baseline"
    /\ attended_last_screening
    /\ clock > SCALE_UP_START_DT
    /\ clock < SCALE_UP_END_DT
    /\ step.result = step.target

\* f(clock), as a fraction: 0 before SCALE_UP_START_DT, the elapsed fraction
\* of the window inside it, 1 at or after SCALE_UP_END_DT
ElapsedFraction(now) ==
    IF now < SCALE_UP_START_DT THEN [num |-> 0, den |-> 1]
    ELSE IF now < SCALE_UP_END_DT
         THEN [num |-> now - SCALE_UP_START_DT,
               den |-> SCALE_UP_END_DT - SCALE_UP_START_DT]
         ELSE [num |-> 1, den |-> 1]

\* the full differential of a cohort: its attendance probability at the end
\* coverage less the one at the start coverage
FullDifferential(attended) ==
    LET m == ATTENDED_PREVIOUS_SCREENING_MULTIPLIER_MEAN
        p_end == get_differential_screening_probabilities(
                     m, PROBABILITY_ATTENDING_SCREENING_END_MEAN)
        p_start == get_differential_screening_probabilities(
                       m, PROBABILITY_ATTENDING_SCREENING_START_MEAN)
    IN  IF attended THEN p_end.attended - p_start.attended
                    ELSE p_end.not_attended - p_start.not_attended

\* the first whole day at or after the middle of the scale-up window
ScaleUpMidpoint == (SCALE_UP_START_DT + SCALE_UP_END_DT) \div 2 + 1

\* C14: under the alternative scenario the amount intervention_effect adds is
\* f(clock) times the full differential of the simulant's cohort, to the
\* thousandth: nothing before the start, half of it at the midpoint, all of
\* it at or after the end; and for a simulant that stays in its cohort the
\* amount never decreases as the clock advances.
C14_ScaleUpAmount ==
    /\ [](( Modified /\ step.scenario = "alternative") =>
            LET f == ElapsedFraction(clock)
                D == FullDifferential(attended_last_screening)
                amount == step.result - step.target
            IN  /\ amount = (f.num * D) \div f.den
                /\ clock < SCALE_UP_START_DT => amount = 0
                /\ clock = ScaleUpMidpoint => 2 * amount = D
                /\ clock >= SCALE_UP_END_DT => amount = D)
    /\ [][(/\ Modified /\ Modified' /\ step.scenario = "alternative"
           /\ attended_last_screening' = attended_last_screening
           /\ FullDifferential(attended_last_screening) >= 0) =>
              step'.result - step'.target >= step.result - step.target]_vars

\* C14 witness: an alternative-scenario evaluation at the midpoint of the
\* window for a simulant who did not attend its last screening
C14_Witness ==
    /\ Modified
    /\ step.scenario = "alternative"
    /\ ~attended_last_screening
    /\ clock = ScaleUpMidpoint
    /\ step.result > step.target
    /\ 2 * (step.result - step.target) = FullDifferential(FALSE)

\* C15: a simulant initialized at an age below FIRST_SCREENING_AGE has, after
\* initialization, a missing previous_screening_date and a defined
\* next_screening_date on or after its FIRST_SCREENING_AGE-th birthday.
C15_UnderAgeStartsAtBirthday ==
    [][(pc = "initialize_simulants" /\ age < FIRST_SCREENING_AGE) =>
          /\ previous_screening_date' = NaT
          /\ next_screening_date' # NaT
          /\ next_screening_date' >= clock + 365 * (FIRST_SCREENING_AGE - age)]_vars

\* C16: a simulant initialized with its age within [FIRST_SCREENING_AGE,
\* LAST_SCREENING_AGE] has, after initialization, a negative result,
\* previous_screening_date <= clock <= next_screening_date, and
\* next_screening_date - previous_screening_date is the first interval drawn
\* for it: a triennial one if its age is below 30, else a quinquennial one.
C16_InitialDatesAroundClock ==
    [][(pc = "initialize_simulants" /\ within_screening_age(age)) =>
          /\ screening_result' = NEGATIVE_STATE_NAME
          /\ previous_screening_date' # NaT
          /\ next_screening_date' # NaT
          /\ previous_screening_date' <= clock
          /\ clock <= next_screening_date'
          /\ next_screening_date' - previous_screening_date'
                = step'.time_to_next_screening
          /\ step'.time_to_next_screening \in
                IF age < MID_SCREENING_AGE THEN TriennialDays
                                           ELSE QuinquennialDays]_vars

\* C16 witness: a simulant of 30 or older, just initialized, part of the way
\* through a quinquennial interval
C16_Witness ==
    /\ step.handler = "ScreeningAlgorithm.on_initialize_simulants"
    /\ age >= MID_SCREENING_AGE
    /\ age <= LAST_SCREENING_AGE
    /\ previous_screening_date # NaT
    /\ previous_screening_date < clock
    /\ clock < next_screening_date
    /\ next_screening_date - previous_screening_date \in QuinquennialDays

\* the test regimes of _do_screening an attendee is in
TestRegimes(state, result, a, has_symptoms) ==
    (IF has_symptoms THEN {"symptomatic"} ELSE {})
        \cup (IF screened_remission(state, result, a, has_symptoms)
              THEN {"remission"} ELSE {})
        \cup (IF cytologists(state, result, a, has_symptoms)
              THEN {"cytology"} ELSE {})
        \cup (IF cotesters(result, a, has_symptoms) THEN {"cotest"} ELSE {})

\* C17: every attendee is in exactly one of the four test regimes
\* (symptomatic, remission test, cytology-only, co-test).
C17_ExactlyOneTestRegime ==
    [][(pc = "time_step" /\ alive /\ step'.attends_screening) =>
          Cardinality(TestRegimes(cervical_cancer_state, screening_result, age,
                                  step'.has_symptoms)) = 1]_vars

\* the cancer stage a screening result records: none, benign, invasive
ResultStage(r) ==
    CASE r \in {"negative_screening", "positive_screening_high_risk_hpv"} -> 0
      [] r \in {"positive_screening_benign_cervical_cancer",
                "positive_screening_benign_cervical_cancer_with_hpv"} -> 1
      [] r \in {"positive_screening_invasive_cervical_cancer",
                "positive_screening_invasive_cervical_cancer_with_hpv"} -> 2

\* the cancer stage a test finds in a disease state: none, benign, invasive
TrueStage(s) ==
    CASE s \in {"benign_cervical_cancer", "benign_cervical_cancer_with_hpv"} -> 1
      [] s \in {"cervical_cancer", "cervical_cancer_with_hpv"} -> 2
      [] OTHER -> 0

\* C18: for every attendee the cancer stage of the new screening_result is
\* the stage of the true disease state when the cancer-channel draw is
\* accurate, and the stage of its previous screening_result when it is not.
C18_CancerChannel ==
    [][(pc = "time_step" /\ alive /\ step'.attends_screening) =>
          ResultStage(screening_result') =
              IF step'.accurate_results_cancer
              THEN TrueStage(cervical_cancer_state)
              ELSE ResultStage(screening_result)]_vars

\* C18 witness: an attendee with an inaccurate cancer test keeps a recorded
\* stage that is not the stage of its disease state
C18_Witness ==
    /\ Screened
    /\ step.attends_screening
    /\ ~step.accurate_results_cancer
    /\ ResultStage(screening_result) = 1
    /\ TrueStage(cervical_cancer_state) = 2

\* C19: a symptomatic attendee is tested with sensitivity and specificity
\* 1.0 on both channels: after the step its screening_result is
\* positive_invasive_cervical_cancer when its disease state is invasive
\* without HPV and positive_invasive_cervical_cancer_with_hpv when it is
\* invasive with HPV.
C19_SymptomaticTestedExactly ==
    [][(pc = "time_step" /\ alive /\ step'.has_symptoms) =>
          /\ step'.attends_screening
          /\ screening_result' =
                IF cervical_cancer_state = INVASIVE_CANCER_WITH_HPV_STATE_NAME
                THEN POSITIVE_CERVICAL_CANCER_WITH_HRHPV_STATE_NAME
                ELSE POSITIVE_CERVICAL_CANCER_STATE_NAME]_vars

\* C20: for an attendee in the co-test regime the probability of an
\* accurate cancer-channel result is COTEST_CC_SENSITIVITY, and the HPV
\* channel uses COTEST_HPV_SENSITIVITY for the truly HPV-positive and
\* COTEST_HPV_SPECIFICITY for the truly HPV-negative.
C20_CotestParameters ==
    [][(/\ pc = "time_step" /\ alive /\ step'.attends_screening
        /\ cotesters(screening_result, age, step'.has_symptoms)) =>
          /\ step'.cancer_sensitivity = COTEST_CC_SENSITIVITY
          /\ hrhpv_sensitivity(screening_result, age, step'.has_symptoms)
                = COTEST_HPV_SENSITIVITY
          /\ hrhpv_specificity(screening_result, age, step'.has_symptoms)
                = COTEST_HPV_SPECIFICITY]_vars

\* C21: the treatment exposure goes from cat1 to cat2 only in
\* TreatmentExposure.on_time_step_prepare, for a simulant whose stored
\* screening_result is positive benign cervical cancer (with or without HPV)
\* and whose fresh exposure differs from the cached one.  A positive-benign
\* result is written only by ScreeningAlgorithm.on_time_step, which runs
\* after time_step__prepare, so the result that lets a simulant be treated
\* comes from a strictly earlier step: the clock has advanced since.
C21_TreatedOnlyAfterPositiveBenign ==
    [][/\ (treatment_cached_exp = "cat1" /\ treatment_cached_exp' = "cat2") =>
            /\ pc = "time_step__prepare_treatment"
            /\ screening_result \in {POSITIVE_BCC_STATE_NAME,
                                      POSITIVE_BCC_WITH_HRHPV_STATE_NAME}
            /\ step'.current_exp # treatment_cached_exp
            /\ clock >= StepDays
       /\ (/\ screening_result' \in {POSITIVE_BCC_STATE_NAME,
                                       POSITIVE_BCC_WITH_HRHPV_STATE_NAME}
           /\ screening_result' # screening_result) =>
            /\ pc = "time_step"
            /\ pc' # "time_step__prepare_treatment"
       /\ pc = "initialize_simulants_treatment" => treatment_cached_exp' = "cat1"
      ]_vars

\* C21 witness: time_step__prepare has just treated a simulant whose stored
\* result is positive benign and whose fresh exposure, cat2, differed from
\* the cached cat1
C21_Witness ==
    /\ step.handler = "TreatmentExposure.on_time_step_prepare"
    /\ step.mask
    /\ step.exp_change
    /\ step.current_exp = "cat2"
    /\ treatment_cached_exp = "cat2"
    /\ screening_result = POSITIVE_BCC_WITH_HRHPV_STATE_NAME

\* the ages at which a simulant may be vaccinated; simulants enter the
\* simulation at FIRST_VACCINATION_AGE or older (the age cohorts of
\* constants/results.py)
VaccinationWindow(a) == FIRST_VACCINATION_AGE <= a /\ a < LAST_VACCINATION_AGE

\* C22: after initialization the vaccination exposure goes from cat1 to cat2
\* only in HpvVaccineExposure.on_time_step_prepare, for a simulant inside the
\* vaccination age window whose fresh exposure differs from the cached one;
\* that handler leaves the cached exposure of a simulant outside the window
\* as it was.
C22_VaccinatedOnlyInWindow ==
    [][/\ (vaccine_cached_exp = "cat1" /\ vaccine_cached_exp' = "cat2") =>
            /\ pc = "time_step__prepare"
            /\ VaccinationWindow(age)
            /\ step'.current_exp # vaccine_cached_exp
       /\ (pc = "time_step__prepare" /\ ~VaccinationWindow(age)) =>
            vaccine_cached_exp' = vaccine_cached_exp
      ]_vars

\* C22 witness: time_step__prepare has just vaccinated a simulant inside the
\* window whose fresh exposure, cat2, differed from the cached cat1
C22_Witness ==
    /\ step.handler = "HpvVaccineExposure.on_time_step_prepare"
    /\ step.mask
    /\ step.exp_change
    /\ step.current_exp = "cat2"
    /\ vaccine_cached_exp = "cat2"
    /\ VaccinationWindow(age)

\* C23: vaccination_date and treatment_date are missing after
\* on_initialize_simulants; a missing date is written only by the
\* collect_metrics listener of its observer, for a simulant whose exposure is
\* cat2, and then it is the clock time; the listener writes it at the first
\* collect_metrics at which the exposure is cat2; a date that is set is left
\* as it is by every later step.
C23_DatesWrittenOnce ==
    [][/\ pc = "initialize_simulants_vaccination_observer" =>
            vaccination_date' = NaT
       /\ pc = "initialize_simulants_treatment_observer" =>
            treatment_date' = NaT
       /\ vaccination_date # NaT => vaccination_date' = vaccination_date
       /\ treatment_date # NaT => treatment_date' = treatment_date
       /\ (vaccination_date = NaT /\ vaccination_date' # NaT) =>
            /\ pc = "collect_metrics_vaccination"
            /\ vaccine_cached_exp = "cat2"
            /\ vaccination_date' = clock
       /\ (treatment_date = NaT /\ treatment_date' # NaT) =>
            /\ pc = "collect_metrics_treatment"
            /\ treatment_cached_exp = "cat2"
            /\ treatment_date' = clock
       /\ (/\ pc = "collect_metrics_vaccination" /\ vaccine_cached_exp = "cat2"
           /\ vaccination_date = NaT) => vaccination_date' = clock
       /\ (/\ pc = "collect_metrics_treatment" /\ treatment_cached_exp = "cat2"
           /\ treatment_date = NaT) => treatment_date' = clock
      ]_vars

\* C23 witness: the collect_metrics of the third step has kept the
\* vaccination date of the first step and has just set the treatment date
C23_Witness ==
    /\ step.handler = "TreatmentObserver.on_collect_metrics"
    /\ clock = 2 * StepDays
    /\ vaccination_date = 0
    /\ treatment_date = clock
    /\ vaccine_cached_exp = "cat2"
    /\ treatment_cached_exp = "cat2"

\* C24: once the collect_metrics listener of the screening, the vaccination
\* or the treatment observer has run, its Counter holds the key of every
\* measure and every label ResultsStratifier.group yields, and so do the
\* metrics at the end of the run; the count of a stratum without a simulant,
\* and of every stratum of an empty state table, is 0.
C24_EmptyStrataCounted ==
    LET returned == metrics
        recorded(counter, measures, year) ==
            \A m \in measures, l \in group_labels(FALSE, FALSE, FALSE) :
                LET k == <<m, year, l>>
                IN  /\ k \in DOMAIN counter
                    /\ k \in DOMAIN returned
                    /\ pop_in_group(population_view_get, l, FALSE, FALSE, FALSE) = {}
                         => counter[k] = 0 /\ returned[k] = 0
    IN  /\ step.handler = "ScreeningObserver.on_collect_metrics" =>
             recorded(counts.screening, {SCREENING_SCHEDULED, SCREENING_ATTENDED},
                      Year(clock))
        /\ step.handler = "VaccinationObserver.on_collect_metrics" =>
             recorded(counts.vaccination, {VACCINATED_FOR_HPV}, NoYear)
        /\ step.handler = "TreatmentObserver.on_collect_metrics" =>
             recorded(counts.treatment, {TREATED_FOR_BCC}, NoYear)

\* C24 witness: the three observers have collected the metrics of an empty
\* state table, and every key is there with the count 0
C24_Witness ==
    /\ step.handler = "TreatmentObserver.on_collect_metrics"
    /\ index = {}
    /\ DOMAIN metrics # {}
    /\ \A k \in DOMAIN metrics : metrics[k] = 0
    /\ Cardinality(DOMAIN metrics) = 4 * Cardinality(AGE_COHORTS)


C26_RateWithoutDataRejected ==
    [][/\ (/\ step'.handler = "DiseaseState.add_transition"
            /\ step'.source_data_type = "rate"
            /\ (step'.get_data_functions = None
                  \/ "transition_rate" \notin step'.get_data_functions))
           => /\ step'.raised = "ValueError"
              /\ step'.transition_set = step.transition_set
              /\ pc = "build"
       /\ (/\ step'.handler = "Transition.setup"
            /\ LET t == step.transition_set[step.loaded + 1]
               IN  /\ t.transition = "RateTransition"
                   /\ "transition_rate" \notin t.get_data_functions)
           => /\ step'.raised = "ValueError"
              /\ pc = "setup"
       /\ pc' = "running" =>
             /\ step'.raised = ""
             /\ \A i \in 1..Len(step'.transition_set) :
                   step'.transition_set[i].transition = "RateTransition"
                     => "transition_rate"
                           \in step'.transition_set[i].get_data_functions]_vars

C26_Witness ==
    /\ pc = "raised"
    /\ step.handler = "DiseaseState.add_transition"
    /\ step.source_data_type = "rate"
    /\ step.get_data_functions = {"incidence_rate"}
    /\ step.raised = "ValueError"
    /\ Len(step.transition_set) = 1

C26_WitnessLoad ==
    /\ pc = "raised"
    /\ step.handler = "Transition.setup"
    /\ step.raised = "ValueError"
    /\ step.loaded = 1


C28_DifferentialProbabilities ==
    step.handler = "ScreeningAlgorithm.get_screening_attendance_probability" =>
        LET m == step.attended_previous_screening_multiplier
            p == step.base_screening_attendance
            f == get_differential_screening_fractions(m, p)
            p1 == (1000 * f.attended) \div f.den
            p2 == (1000 * f.not_attended) \div f.den
        IN  /\ f.den > 0
            /\ f.den = 100000 + p * (m - 100)
            /\ f.not_attended = 100 * p
            /\ 100 * f.attended = m * f.not_attended
            /\ p * f.attended + (1000 - p) * f.not_attended = p * f.den
            /\ m >= 100 => f.attended >= f.not_attended
            /\ IF attended_last_screening
               THEN /\ step.prob_attending_screening <= p1
                    /\ step.prob_attending_screening >= p1 - 1 - m \div 100
               ELSE step.prob_attending_screening = p2
            /\ m >= 100 =>
                  prob_attending_screening(TRUE, m, p)
                     >= prob_attending_screening(FALSE, m, p)

C28_Witness ==
    /\ step.handler = "ScreeningAlgorithm.get_screening_attendance_probability"
    /\ step.attended_previous_screening_multiplier = 189
    /\ step.base_screening_attendance = 250
    /\ attended_last_screening
    /\ step.prob_attending_screening = 385
    /\ prob_attending_screening(FALSE, 189, 250) = 204


\* C29: a simulant is symptomatic in a step only if its disease state is
\* invasive cancer, with or without HPV, and its screening_result is not
\* already positive for invasive cancer: a simulant whose invasive cancer
\* has been detected does not present with symptoms while that result
\* stands, and a simulant in a state that is not invasive never does.
C29_SymptomaticOnlyUndetectedInvasive ==
    [][(pc = "time_step" /\ alive) =>
          /\ step'.has_symptoms =>
                /\ cervical_cancer_state
                      \in {INVASIVE_CANCER_STATE_NAME,
                           INVASIVE_CANCER_WITH_HPV_STATE_NAME}
                /\ screening_result
                      \notin {POSITIVE_CERVICAL_CANCER_STATE_NAME,
                              POSITIVE_CERVICAL_CANCER_WITH_HRHPV_STATE_NAME}
          /\ screening_result
                 \in {POSITIVE_CERVICAL_CANCER_STATE_NAME,
                      POSITIVE_CERVICAL_CANCER_WITH_HRHPV_STATE_NAME}
               => ~step'.has_symptoms
          /\ TrueStage(cervical_cancer_state) # 2 => ~step'.has_symptoms]_vars

\* C29 witness: a simulant with invasive cancer on record and in fact is
\* not scheduled in a step, so it did not present with symptoms
C29_Witness ==
    /\ Screened
    /\ ~step.has_symptoms
    /\ ~step.screening_scheduled
    /\ cervical_cancer_state = INVASIVE_CANCER_STATE_NAME
    /\ screening_result = POSITIVE_CERVICAL_CANCER_STATE_NAME


\* the place of a listener in the order of one step
ListenerPosition(p) == CHOOSE i \in 1..Len(Listeners) : Listeners[i] = p

C31_PreviousIsVisitDate ==
    [][(pc = "time_step" /\ alive /\ step'.screening_scheduled) =>
          /\ previous_screening_date' # NaT
          /\ previous_screening_date' <= clock
          /\ step'.has_symptoms => previous_screening_date' = clock]_vars

\* C32: a susceptible attendee tested under the cytology-only regime (age
\* under MID_SCREENING_AGE) whose screening_result on record is negative has
\* a negative screening_result after the visit; and an attendee who is not
\* co-tested never has its recorded HPV status set to the opposite of its
\* true HPV status.
C32_NoHpvTestKeepsHpvStatus ==
    [][(pc = "time_step" /\ alive /\ step'.attends_screening) =>
          /\ ( /\ cervical_cancer_state = SUSCEPTIBLE_STATE_NAME
               /\ screening_result = NEGATIVE_STATE_NAME
               /\ age < MID_SCREENING_AGE
               /\ cytologists(cervical_cancer_state, screening_result, age,
                              step'.has_symptoms) )
             => screening_result' = NEGATIVE_STATE_NAME
          /\ ~cotesters(screening_result, age, step'.has_symptoms)
             => (screening_result' \in
                     {POSITIVE_HRHPV_STATE_NAME,
                      POSITIVE_BCC_WITH_HRHPV_STATE_NAME,
                      POSITIVE_CERVICAL_CANCER_WITH_HRHPV_STATE_NAME}
                   <=> cervical_cancer_state \in HPV_POS_STATES)]_vars

\* C33: screening never reports a cancer stage the simulant has not reached.
\* The stage of the disease state never decreases, so a simulant now
\* susceptible or with high-risk HPV has never been in a benign, invasive or
\* recovered state, and one now in a benign state or earlier has never been
\* in an invasive state: the first has a screening_result without a cancer
\* category, the second has no positive-invasive screening_result.
C33_NoUnreachedStageReported ==
    /\ [][Stage(cervical_cancer_state') >= Stage(cervical_cancer_state)]_vars
    /\ [](screening_result # "NA" =>
            /\ Stage(cervical_cancer_state) = 0
                 => screening_result \in {NEGATIVE_STATE_NAME,
                                          POSITIVE_HRHPV_STATE_NAME}
            /\ Stage(cervical_cancer_state) <= 1
                 => screening_result \notin
                        {POSITIVE_CERVICAL_CANCER_STATE_NAME,
                         POSITIVE_CERVICAL_CANCER_WITH_HRHPV_STATE_NAME})

\* C33 witness: a benign cancer was found at an earlier visit, and at this
\* visit the cancer channel is inaccurate for a simulant still in a benign
\* state: the result keeps the benign category and reports no invasive one
C33_Witness ==
    /\ Screened
    /\ step.attends_screening
    /\ ~step.accurate_results_cancer
    /\ Stage(cervical_cancer_state) = 1
    /\ ResultStage(screening_result) = 1

\* C34: every scheduled screening is counted exactly once by
\* ScreeningObserver. The observer adds to screening_scheduled_count the
\* simulants its mask holds for at collect_metrics and to
\* screening_attended_count those of them with attended_last_screening; no
\* listener between ScreeningAlgorithm.on_time_step and collect_metrics
\* writes the columns of the mask. So the claim says: after on_time_step the
\* mask holds exactly for a simulant whose screening was scheduled in the
\* step, and holds with attended_last_screening exactly for one who attended.
C34_ScheduledCountedOnce ==
    [][/\ (pc = "time_step" /\ "screening_observer" \in observers) =>
            /\ (previous_screening_date' # NaT
                  /\ previous_screening_date' > clock - StepDays)
                 <=> (alive /\ step'.screening_scheduled)
            /\ (previous_screening_date' # NaT
                  /\ previous_screening_date' > clock - StepDays
                  /\ attended_last_screening')
                 <=> (alive /\ step'.attends_screening)
       /\ pc = "collect_metrics_screening" =>
            LET this_step == step'.counts_this_step
                counted(measure) ==
                    Sum(this_step, {k \in DOMAIN this_step : k[1] = measure})
                mask == /\ previous_screening_date # NaT
                        /\ previous_screening_date > clock - StepDays
            IN  /\ counted(SCREENING_SCHEDULED) = IF mask THEN 1 ELSE 0
                /\ counted(SCREENING_ATTENDED) =
                       IF mask /\ attended_last_screening THEN 1 ELSE 0]_vars

\* C35: a simulant adds to the vaccinated-for-HPV count at most once in a
\* run, and to the treated-for-BCC count at most once, and only in the step
\* in which its vaccination_date (treatment_date) is set: the count over all
\* strata is 1 once the date is set and 0 before, and it grows only in the
\* on_collect_metrics that writes the date, although the date is written
\* before the counts of the strata are computed.
C35_CountedOnceWhenDateSet ==
    /\ [](/\ Sum(counts.vaccination, DOMAIN counts.vaccination)
               = IF vaccination_date # NaT THEN 1 ELSE 0
          /\ Sum(counts.treatment, DOMAIN counts.treatment)
               = IF treatment_date # NaT THEN 1 ELSE 0)
    /\ [][/\ Sum(counts'.vaccination, DOMAIN counts'.vaccination)
                 # Sum(counts.vaccination, DOMAIN counts.vaccination) =>
               /\ pc = "collect_metrics_vaccination"
               /\ vaccination_date = NaT
               /\ vaccination_date' = clock
          /\ Sum(counts'.treatment, DOMAIN counts'.treatment)
                 # Sum(counts.treatment, DOMAIN counts.treatment) =>
               /\ pc = "collect_metrics_treatment"
               /\ treatment_date = NaT
               /\ treatment_date' = clock]_vars

\* C35 witness: the treatment is counted in the step that sets its date,
\* and the vaccination of an earlier step is still counted once
C35_Witness ==
    /\ step.handler = "TreatmentObserver.on_collect_metrics"
    /\ treatment_date = clock
    /\ Sum(step.counts_this_step, DOMAIN step.counts_this_step) = 1
    /\ Sum(counts.treatment, DOMAIN counts.treatment) = 1
    /\ vaccination_date # NaT
    /\ vaccination_date < clock
    /\ Sum(counts.vaccination, DOMAIN counts.vaccination) = 1

\* C36: after every collect_metrics the vaccination_date of a simulant is
\* set if and only if its cached vaccination exposure is cat2, and its
\* treatment_date is set if and only if its cached treatment exposure is
\* cat2.
C36_DateIffCachedCat2 ==
    /\ (step.handler = "VaccinationObserver.on_collect_metrics" \/ pc = "clock")
         => (vaccination_date # NaT <=> vaccine_cached_exp = "cat2")
    /\ (step.handler = "TreatmentObserver.on_collect_metrics" \/ pc = "clock")
         => (treatment_date # NaT <=> treatment_cached_exp = "cat2")

\* C36 witness: after a collect_metrics the vaccination date of an earlier
\* step goes with a cached exposure that is still cat2, and the simulant
\* without treatment exposure has no treatment date
C36_Witness ==
    /\ pc = "clock"
    /\ step.handler = "TreatmentObserver.on_collect_metrics"
    /\ vaccination_date # NaT
    /\ vaccination_date < clock
    /\ vaccine_cached_exp = "cat2"
    /\ treatment_date = NaT
    /\ treatment_cached_exp = "cat1"

\* C37: on_initialize_simulants for a new batch of simulants leaves the
\* cached exposure of every simulant initialised before present and
\* unchanged, in HpvVaccineExposure and in TreatmentExposure.
C37_BatchKeepsCachedExposures ==
    [][(pc = "initialize_simulants_vaccine" \/ pc = "initialize_simulants_treatment") =>
          ((\A i \in DOMAIN vaccine_cached_exp :
                i \in DOMAIN vaccine_cached_exp'
                   /\ vaccine_cached_exp'[i] = vaccine_cached_exp[i])
           /\ (\A i \in DOMAIN treatment_cached_exp :
                i \in DOMAIN treatment_cached_exp'
                   /\ treatment_cached_exp'[i] = treatment_cached_exp[i]))
      ]_vars

\* C38: every state change the disease model makes in a step is counted as
\* exactly one transition event by the StateMachineObserver: the
\* transitions of CERVICAL_CANCER_MODEL_TRANSITIONS are exactly the edges
\* CervicalCancer() builds, so at collect_metrics exactly one of them has
\* the snapshot of the simulant as its from_state and the current state as
\* its to_state when the state changed in the step, and none when it did
\* not.
C38_EveryStateChangeCounted ==
    (step.handler = "StateMachineObserver.on_collect_metrics" /\ index # {}) =>
          Cardinality({transition \in constants_CERVICAL_CANCER_MODEL_TRANSITIONS :
                          \E r \in population_view_get :
                              event_this_step(transition, r)})
              = IF previous_cervical_cancer # cervical_cancer_state THEN 1 ELSE 0

C40_NoDueScreeningSkipped ==
    /\ [][(/\ pc = "time_step"
           /\ alive
           /\ next_screening_date # NaT
           /\ next_screening_date <= clock
           /\ within_screening_age(age)) => step'.screening_scheduled]_vars
    /\ (/\ alive
        /\ within_screening_age(age)
        /\ next_screening_date # NaT
        /\ next_screening_date <= MaxSteps * StepDays
        /\ (\/ clock < MaxSteps * StepDays
            \/ pc \in {"time_step__prepare", "time_step__prepare_treatment",
                       "time_step"}))
         ~> (\/ Screened /\ step.screening_scheduled
             \/ ~alive
             \/ ~within_screening_age(age))

\* C40 witness: a date that fell due since the step before is scheduled in
\* this step, the first at or after it, for a simulant without symptoms
C40_Witness ==
    /\ Screened
    /\ step.screening_scheduled
    /\ ~step.has_symptoms
    /\ clock > 0
    /\ previous_screening_date # NaT
    /\ previous_screening_date <= clock
    /\ previous_screening_date > clock - StepDays
    /\ within_screening_age(age)

====
